---- MODULE Spec2Model ----
(***************************************************************************)
(* Model of the track cache of macos-music-tui (src/src/cache.rs) and of   *)
(* the track sync pipeline that fills it (src/src/app.rs): the background  *)
(* thread spawned by App::new, the channel of CacheResponse messages, and  *)
(* the consumer App::poll_cache_responses.                                 *)
(*                                                                         *)
(* Strings are sequences of one-character strings, so that to_lowercase    *)
(* and concatenation are computed and not assumed.  Option<u64> is a       *)
(* sequence of length 0 (None) or 1 (Some).                                *)
(***************************************************************************)
EXTENDS Integers, Sequences, FiniteSets, TLC

VARIABLES
    lib,                \* the Music library (Library Source): entries in index order
    now,                \* SystemTime::now() in seconds since the epoch
    disk,               \* the file tracks.json
    cache,              \* App.cache : TrackCache
    cache_loading,      \* App.cache_loading
    message,            \* App.message as set by the Upsert arm (None or the added count)
    chan,               \* the mpsc channel cache_resp_tx -> cache_resp_rx
    pc,                 \* position of the track sync thread
    cache_loaded,       \* captured by the thread: cache.loaded_tracks at startup
    cache_last_updated, \* captured by the thread: cache.last_updated at startup
    cache_is_complete,  \* captured by the thread: cache.is_complete() at startup
    current_total,      \* thread local
    cache_offset,       \* thread local
    runs,               \* number of process starts so far
    ticks,              \* number of clock advances so far
    edits,              \* number of library edits so far
    boot,               \* history: the file this process started from, and whether it could read it
    calls,              \* history: the Library Source calls of this run
    sent,               \* history: the messages sent in this run
    saves,              \* history: number of TrackCache::save calls of this run
    applied,            \* history: the messages the consumer has applied in this run
    u_pc,               \* pure-function harness: position
    u_cache,            \* pure-function harness: the cache an operation is applied to
    u_batch,            \* pure-function harness: the batch given to upsert_tracks
    u_first,            \* pure-function harness: result of the first application
    u_second,           \* pure-function harness: result of the second application
    u_flag,             \* pure-function harness: result of is_complete
    u_file,             \* pure-function harness: the file save writes and load reads
    u_io,               \* pure-function harness: the outcomes of the file operations
    u_loaded,           \* pure-function harness: result of load
    u_query,            \* pure-function harness: the queries given to search
    u_result,           \* pure-function harness: the results of search
    pl_lib,             \* the Music application's user playlists: catalog and content
    pl_disk,            \* the file playlists.json
    playlist_cache,     \* App.playlist_cache : PlaylistCache
    playlists,          \* App.playlists (names)
    playlist_loading,   \* App.playlist_loading
    playlist_loading_progress, \* App.playlist_loading_progress
    is_playlist_detail, \* App.is_playlist_detail
    content_source_name,\* App.content_source_name
    pl_chan,            \* the mpsc channel playlist_load_tx -> playlist_load_rx
    pl_pc,              \* position of the playlist load thread
    playlist_cache_clone, \* captured by the thread: the cached names at startup
    pl_uncached,        \* thread local: uncached
    pl_i,               \* thread local: loop index (from 1)
    playlist_refreshing,\* App.playlist_refreshing
    playlist_refresh_rx,\* App.playlist_refresh_rx with the content of its channel
    rf_threads,         \* the refresh threads that have not finished
    pl_edits,           \* number of playlist edits in the Music application so far
    pl_loads,           \* number of foreground loads so far
    pl_calls,           \* history: the get_playlist_tracks calls of the playlist load thread
    pl_sent,            \* history: the messages sent by the playlist load thread
    pl_saves,           \* history: number of PlaylistCache::save calls
    rf_hist             \* history: the force refreshes, by creation order

appVars  == <<cache, cache_loading, message>>
syncVars == <<pc, cache_loaded, cache_last_updated, cache_is_complete, current_total, cache_offset>>
histVars == <<boot, calls, sent, saves>>
mainVars == <<lib, now, disk, cache, cache_loading, message, chan, pc, cache_loaded,
              cache_last_updated, cache_is_complete, current_total, cache_offset,
              runs, ticks, edits, boot, calls, sent, saves, applied>>
pureVars == <<u_pc, u_cache, u_batch, u_first, u_second, u_flag, u_file, u_io,
              u_loaded, u_query, u_result>>
plVars   == <<pl_lib, pl_disk, playlist_cache, playlists, playlist_loading,
              playlist_loading_progress, is_playlist_detail, content_source_name,
              pl_chan, pl_pc, playlist_cache_clone, pl_uncached, pl_i,
              playlist_refreshing, playlist_refresh_rx, rf_threads, pl_edits,
              pl_loads, pl_calls, pl_sent, pl_saves, rf_hist>>
idleVars == <<pureVars, plVars>>
vars     == <<mainVars, pureVars, plVars>>

----------------------------------------------------------------------------
(* Program constants *)

BATCH_SIZE == 50
SaveEvery == 100
OneDay == 86400

(* Bounds of the model *)

MaxRuns == 3
MaxTicks == 1
MaxEdits == 1
MaxSent == 4
StartTime == 100000
TickStep == 90000
MaxCacheLen == 2
MaxBatchLen == 2
MaxTotal == 3
MaxRefresh == 2
MaxPlEdits == 1
MaxPlLoads == 1

----------------------------------------------------------------------------
(* Strings *)

UpperChars == <<"A", "B", "E", "I", "L", "M", "N", "O", "R", "S", "T", "U">>
LowerChars == <<"a", "b", "e", "i", "l", "m", "n", "o", "r", "s", "t", "u">>
DigitChars == <<"0", "1", "2", "3", "4", "5", "6", "7", "8", "9">>

to_lowercase_char(c) ==
    IF \E k \in 1..Len(UpperChars) : UpperChars[k] = c
    THEN LowerChars[CHOOSE k \in 1..Len(UpperChars) : UpperChars[k] = c]
    ELSE c

to_lowercase(s) == [k \in 1..Len(s) |-> to_lowercase_char(s[k])]

Digits3(i) ==
    << DigitChars[((i \div 100) % 10) + 1],
       DigitChars[((i \div 10) % 10) + 1],
       DigitChars[(i % 10) + 1] >>

None == << >>
Some(x) == << x >>

----------------------------------------------------------------------------
(* Records *)

\* format!("{} {} {}", name, artist, album).to_lowercase()
SearchKeyOf(t) == to_lowercase(t.name \o <<" ">> \o t.artist \o <<" ">> \o t.album)

CachedTrack_new(t) ==
    [ name |-> t.name, artist |-> t.artist, album |-> t.album,
      date_added |-> t.date_added, year |-> t.year,
      track_number |-> t.track_number, disc_number |-> t.disc_number,
      time |-> t.time, played_count |-> t.played_count,
      favorited |-> t.favorited,
      search_key |-> SearchKeyOf(t) ]

init_search_key(t) == [t EXCEPT !.search_key = SearchKeyOf(t)]

\* #[serde(skip)] search_key: not written, and String::default() when read
SerializeTrack(t) ==
    [ name |-> t.name, artist |-> t.artist, album |-> t.album,
      date_added |-> t.date_added, year |-> t.year,
      track_number |-> t.track_number, disc_number |-> t.disc_number,
      time |-> t.time, played_count |-> t.played_count,
      favorited |-> t.favorited ]

DeserializeTrack(j) ==
    [ name |-> j.name, artist |-> j.artist, album |-> j.album,
      date_added |-> j.date_added, year |-> j.year,
      track_number |-> j.track_number, disc_number |-> j.disc_number,
      time |-> j.time, played_count |-> j.played_count,
      favorited |-> j.favorited,
      search_key |-> << >> ]

SameKey(a, b) == a.name = b.name /\ a.artist = b.artist /\ a.album = b.album

----------------------------------------------------------------------------
(* TrackCache *)

TrackCache_default ==
    [ total_tracks |-> 0, loaded_tracks |-> 0, last_updated |-> None,
      tracks |-> << >>, search_keys_initialized |-> FALSE,
      is_fresh_build |-> FALSE ]

FreshCache == [TrackCache_default EXCEPT !.is_fresh_build = TRUE]

\* serde_json::to_string(self): the two #[serde(skip)] fields are left out
Serialize(c) ==
    [ total_tracks |-> c.total_tracks, loaded_tracks |-> c.loaded_tracks,
      last_updated |-> c.last_updated,
      tracks |-> [k \in 1..Len(c.tracks) |-> SerializeTrack(c.tracks[k])] ]

\* deserialization that does not read last_updated
Deserialize_no_timestamp(j) ==
    [ total_tracks |-> j.total_tracks, loaded_tracks |-> j.loaded_tracks,
      last_updated |-> None,
      tracks |-> [k \in 1..Len(j.tracks) |-> DeserializeTrack(j.tracks[k])],
      search_keys_initialized |-> FALSE, is_fresh_build |-> FALSE ]

Deserialize(j) ==
    [ total_tracks |-> j.total_tracks, loaded_tracks |-> j.loaded_tracks,
      last_updated |-> j.last_updated,
      tracks |-> [k \in 1..Len(j.tracks) |-> DeserializeTrack(j.tracks[k])],
      search_keys_initialized |-> FALSE, is_fresh_build |-> FALSE ]

\* The file: absent, holding a document written by save, or holding text that
\* does not parse (a write that stopped half way).
NoFile      == [kind |-> "absent",  json |-> Serialize(TrackCache_default)]
CorruptFile == [kind |-> "corrupt", json |-> Serialize(TrackCache_default)]
JsonFile(c) == [kind |-> "json",    json |-> Serialize(c)]

LoadOutcomes == {"ok", "nopath", "readerr"}
SaveOutcomes == {"ok", "nopath", "partial"}

load(file, io) ==
    IF io = "nopath" THEN FreshCache
    ELSE IF file.kind = "absent" THEN FreshCache
    ELSE IF io = "readerr" THEN FreshCache
    ELSE IF file.kind = "json" THEN Deserialize(file.json)
    ELSE TrackCache_default

\* the file after save(): a whole rewrite, nothing on a path failure, and a
\* truncated document when the write stops half way
\* a save that writes the counts and the timestamp but not the records
save_without_tracks(c, file, io) ==
    IF io = "nopath" THEN file
    ELSE IF io = "partial" THEN CorruptFile
    ELSE JsonFile([c EXCEPT !.tracks = << >>])

save(c, file, io) ==
    IF io = "nopath" THEN file
    ELSE IF io = "partial" THEN CorruptFile
    ELSE JsonFile(c)

\* a completing batch that leaves the timestamp as it was
update_timestamp_keeps(c, t) == c

update_timestamp(c, t) == [c EXCEPT !.last_updated = Some(t)]

\* add_tracks without the recount of loaded_tracks
add_tracks_no_recount(c, new_tracks) == [c EXCEPT !.tracks = c.tracks \o new_tracks]

\* add_tracks that keeps the new batch in place of the stored records
add_tracks_replaces(c, new_tracks) ==
    [c EXCEPT !.tracks = new_tracks, !.loaded_tracks = Len(new_tracks)]

add_tracks(c, new_tracks) ==
    LET ts == c.tracks \o new_tracks
    IN  [c EXCEPT !.tracks = ts, !.loaded_tracks = Len(ts)]

\* a search that never finds the stored record
FindKey_never(ts, t) == 0

\* position of the first stored record with the key of t, 0 when there is none
FindKey(ts, t) ==
    IF \E k \in 1..Len(ts) : SameKey(ts[k], t)
    THEN CHOOSE k \in 1..Len(ts) :
            SameKey(ts[k], t) /\ \A m \in 1..(k - 1) : ~SameKey(ts[m], t)
    ELSE 0

\* the loop body without the assignment of played_count
UpsertOne_no_played_count(st, new_track) ==
    LET k == FindKey(st.tracks, new_track)
    IN  IF k > 0
        THEN [st EXCEPT !.tracks[k] = init_search_key(
                 [@ EXCEPT !.date_added = new_track.date_added,
                           !.year = new_track.year,
                           !.track_number = new_track.track_number,
                           !.disc_number = new_track.disc_number,
                           !.time = new_track.time,
                           !.favorited = new_track.favorited])]
        ELSE [tracks |-> Append(st.tracks, new_track), added_count |-> st.added_count + 1]

\* one iteration of the loop of upsert_tracks
UpsertOne(st, new_track) ==
    LET k == FindKey(st.tracks, new_track)
    IN  IF k > 0
        THEN [st EXCEPT !.tracks[k] = init_search_key(
                 [@ EXCEPT !.date_added = new_track.date_added,
                           !.year = new_track.year,
                           !.track_number = new_track.track_number,
                           !.disc_number = new_track.disc_number,
                           !.time = new_track.time,
                           !.played_count = new_track.played_count,
                           !.favorited = new_track.favorited])]
        ELSE [tracks |-> Append(st.tracks, new_track), added_count |-> st.added_count + 1]

RECURSIVE UpsertLoop(_, _)
UpsertLoop(st, new_tracks) ==
    IF new_tracks = << >> THEN st
    ELSE UpsertLoop(UpsertOne(st, Head(new_tracks)), Tail(new_tracks))

\* returns the cache after the call and the value returned
upsert_tracks(c, new_tracks) ==
    LET st == UpsertLoop([tracks |-> c.tracks, added_count |-> 0], new_tracks)
    IN  [ cache |-> [c EXCEPT !.tracks = st.tracks, !.loaded_tracks = Len(st.tracks)],
          added_count |-> st.added_count ]

\* is_complete without the test for an unknown library size
is_complete_no_zero_test(c) == c.loaded_tracks >= c.total_tracks

is_complete(c) == c.total_tracks > 0 /\ c.loaded_tracks >= c.total_tracks

----------------------------------------------------------------------------
(* TrackCache::search *)

is_uppercase(c) == \E k \in 1..Len(UpperChars) : UpperChars[k] = c

\* word.chars().any(|c| c.is_uppercase())
has_uppercase(s) == \E k \in 1..Len(s) : is_uppercase(s[k])

starts_with(s, p) == Len(s) >= Len(p) /\ SubSeq(s, 1, Len(p)) = p

ends_with(s, p) == Len(s) >= Len(p) /\ SubSeq(s, Len(s) - Len(p) + 1, Len(s)) = p

\* str::contains: sub occurs in s as a contiguous run
contains(s, sub) ==
    \E i \in 0..(Len(s) - Len(sub)) : SubSeq(s, i + 1, i + Len(sub)) = sub

\* str::split_whitespace: the maximal runs without white space, in order
RECURSIVE SplitFrom(_, _, _)
SplitFrom(s, cur, acc) ==
    IF s = << >>
    THEN (IF cur = << >> THEN acc ELSE Append(acc, cur))
    ELSE IF Head(s) = " "
    THEN SplitFrom(Tail(s), << >>, IF cur = << >> THEN acc ELSE Append(acc, cur))
    ELSE SplitFrom(Tail(s), Append(cur, Head(s)), acc)

split_whitespace(s) == SplitFrom(s, << >>, << >>)

\* parse_filter_value: None, or the value and whether it was quoted
parse_filter_value(value) ==
    IF value = << >> THEN None
    ELSE IF /\ Len(value) >= 2
            /\ \/ (starts_with(value, <<"\"">>) /\ ends_with(value, <<"\"">>))
               \/ (starts_with(value, <<"'">>) /\ ends_with(value, <<"'">>))
    THEN LET inner == SubSeq(value, 2, Len(value) - 1)
         IN  IF inner = << >> THEN None ELSE Some([value |-> inner, exact |-> TRUE])
    ELSE Some([value |-> value, exact |-> FALSE])

\* smart_case_match that always folds the case
smart_case_match_folding(target, key) == contains(to_lowercase(target), to_lowercase(key))

smart_case_match(target, key) ==
    IF has_uppercase(key)
    THEN contains(target, key)
    ELSE contains(to_lowercase(target), to_lowercase(key))

\* field_match that treats a quoted value as an unquoted one
field_match_never_exact(target, key, exact) == smart_case_match(target, key)

field_match(target, key, exact) ==
    IF exact THEN target = key ELSE smart_case_match(target, key)

\* the keys marked as initialised without being computed
ensure_search_keys_marks_only(c) == [c EXCEPT !.search_keys_initialized = TRUE]

ensure_search_keys(c) ==
    IF ~c.search_keys_initialized
    THEN [c EXCEPT !.tracks = [k \in 1..Len(c.tracks) |-> init_search_key(c.tracks[k])],
                   !.search_keys_initialized = TRUE]
    ELSE c

NamePrefix == <<"n", "a", "m", "e", ":">>
ArtistPrefix == <<"a", "r", "t", "i", "s", "t", ":">>
AlbumPrefix == <<"a", "l", "b", "u", "m", ":">>

\* the branch of the loop over the words that a word takes, with the filter
\* it pushes (None when parse_filter_value returns None)
ClassifyWord(word) ==
    LET word_lower == to_lowercase(word)
    IN  IF starts_with(word_lower, NamePrefix)
        THEN [kind |-> "name", filter |-> parse_filter_value(SubSeq(word, 6, Len(word))), word |-> word]
        ELSE IF starts_with(word_lower, ArtistPrefix)
        THEN [kind |-> "artist", filter |-> parse_filter_value(SubSeq(word, 8, Len(word))), word |-> word]
        ELSE IF starts_with(word_lower, AlbumPrefix)
        THEN [kind |-> "album", filter |-> parse_filter_value(SubSeq(word, 7, Len(word))), word |-> word]
        ELSE [kind |-> "general", filter |-> None, word |-> word]

\* only the first filter of a field is kept
FiltersOf_first_only(classified, kind) ==
    LET hits == SelectSeq(classified, LAMBDA w : w.kind = kind /\ w.filter # None)
    IN  [k \in 1..(IF hits = << >> THEN 0 ELSE 1) |-> hits[k].filter[1]]

\* the filters pushed for one field, in the order of the words
FiltersOf(classified, kind) ==
    LET hits == SelectSeq(classified, LAMBDA w : w.kind = kind /\ w.filter # None)
    IN  [k \in 1..Len(hits) |-> hits[k].filter[1]]

\* a closure that rejects every record when the query has no general word
TrackMatches_needs_a_word(track, name_filters, artist_filters, album_filters, general_words) ==
    /\ general_words # << >>
    /\ \A k \in 1..Len(artist_filters) :
          field_match(track.artist, artist_filters[k].value, artist_filters[k].exact)

\* the closure given to filter()
TrackMatches(track, name_filters, artist_filters, album_filters, general_words) ==
    /\ \A k \in 1..Len(name_filters) :
          field_match(track.name, name_filters[k].value, name_filters[k].exact)
    /\ \A k \in 1..Len(artist_filters) :
          field_match(track.artist, artist_filters[k].value, artist_filters[k].exact)
    /\ \A k \in 1..Len(album_filters) :
          field_match(track.album, album_filters[k].value, album_filters[k].exact)
    /\ \A k \in 1..Len(general_words) :
          LET word == general_words[k]
          IN  IF has_uppercase(word)
              THEN contains(track.name \o <<" ">> \o track.artist \o <<" ">> \o track.album, word)
              ELSE contains(track.search_key, to_lowercase(word))

\* search(&mut self, query): the cache afterwards and the records returned
search(c, query) ==
    LET c1 == ensure_search_keys(c)
        words == split_whitespace(query)
        classified == [k \in 1..Len(words) |-> ClassifyWord(words[k])]
        name_filters == FiltersOf(classified, "name")
        artist_filters == FiltersOf(classified, "artist")
        album_filters == FiltersOf(classified, "album")
        generals == SelectSeq(classified, LAMBDA w : w.kind = "general")
        general_words == [k \in 1..Len(generals) |-> generals[k].word]
    IN  [ cache |-> c1,
          result |-> SelectSeq(c1.tracks,
                        LAMBDA t : TrackMatches(t, name_filters, artist_filters,
                                                album_filters, general_words)) ]

----------------------------------------------------------------------------

(* Album queries and the date transform *)

\* the characters of the model in ascending order of their code
AsciiChars ==
    << " ", "\"", "'", "+", ",", "-",
       "0", "1", "2", "3", "4", "5", "6", "7", "8", "9", ":",
       "A", "B", "C", "D", "E", "F", "G", "H", "I", "J", "K", "L", "M",
       "N", "O", "P", "Q", "R", "S", "T", "U", "V", "W", "X", "Y", "Z",
       "a", "b", "c", "d", "e", "f", "g", "h", "i", "j", "k", "l", "m",
       "n", "o", "p", "q", "r", "s", "t", "u", "v", "w", "x", "y", "z" >>

CodeOf(ch) == CHOOSE k \in 1..Len(AsciiChars) : AsciiChars[k] = ch

\* Ord::cmp of two integers: -1, 0 or 1
int_cmp(a, b) == IF a < b THEN -1 ELSE IF a > b THEN 1 ELSE 0

\* Ord::cmp of two strings: lexicographic by character code
RECURSIVE str_cmp(_, _)
str_cmp(a, b) ==
    IF a = << >> THEN (IF b = << >> THEN 0 ELSE -1)
    ELSE IF b = << >> THEN 1
    ELSE IF a[1] = b[1] THEN str_cmp(Tail(a), Tail(b))
    ELSE int_cmp(CodeOf(a[1]), CodeOf(b[1]))

\* str::split(sep): the pieces between the occurrences of sep, at least one
RECURSIVE SplitOn(_, _, _)
SplitOn(s, sep, cur) ==
    IF s = << >> THEN << cur >>
    ELSE IF starts_with(s, sep)
    THEN << cur >> \o SplitOn(SubSeq(s, Len(sep) + 1, Len(s)), sep, << >>)
    ELSE SplitOn(Tail(s), sep, Append(cur, s[1]))

split(s, sep) == SplitOn(s, sep, << >>)

\* parts.get(i).unwrap_or(default), i counted from 1
get_or(parts, i, default) == IF i <= Len(parts) THEN parts[i] ELSE default

IsDigit(ch) == \E k \in 1..10 : DigitChars[k] = ch

DigitOf(ch) == (CHOOSE k \in 1..10 : DigitChars[k] = ch) - 1

RECURSIVE DigitsValue(_, _)
DigitsValue(s, acc) ==
    IF s = << >> THEN acc ELSE DigitsValue(Tail(s), acc * 10 + DigitOf(s[1]))

RECURSIVE StripZeros(_)
StripZeros(s) == IF Len(s) > 1 /\ s[1] = "0" THEN StripZeros(Tail(s)) ELSE s

\* u32::MAX in decimal
U32Max == <<"4", "2", "9", "4", "9", "6", "7", "2", "9", "5">>

\* str::parse::<u32>(): digits after an optional plus sign, at most u32::MAX
parse_u32(s) ==
    LET body == IF s # << >> /\ s[1] = "+" THEN Tail(s) ELSE s
        digits == StripZeros(body)
    IN  IF body = << >> \/ \E k \in 1..Len(body) : ~IsDigit(body[k])
        THEN None
        ELSE IF Len(digits) > 10 \/ (Len(digits) = 10 /\ str_cmp(digits, U32Max) > 0)
        THEN None
        ELSE Some(DigitsValue(digits, 0))

unwrap_or(opt, default) == IF opt = None THEN default ELSE opt[1]

RECURSIVE ToDigits(_)
ToDigits(n) ==
    IF n < 10 THEN << DigitChars[n + 1] >>
    ELSE Append(ToDigits(n \div 10), DigitChars[(n % 10) + 1])

\* format!("{:0w$}", n): at least w digits, padded with zeros on the left
ZeroPad(n, w) ==
    LET d == ToDigits(n)
    IN  [k \in 1..(IF Len(d) < w THEN w - Len(d) ELSE 0) |-> "0"] \o d

MonthNames ==
    << <<"J", "a", "n", "u", "a", "r", "y">>,
       <<"F", "e", "b", "r", "u", "a", "r", "y">>,
       <<"M", "a", "r", "c", "h">>,
       <<"A", "p", "r", "i", "l">>,
       <<"M", "a", "y">>,
       <<"J", "u", "n", "e">>,
       <<"J", "u", "l", "y">>,
       <<"A", "u", "g", "u", "s", "t">>,
       <<"S", "e", "p", "t", "e", "m", "b", "e", "r">>,
       <<"O", "c", "t", "o", "b", "e", "r">>,
       <<"N", "o", "v", "e", "m", "b", "e", "r">>,
       <<"D", "e", "c", "e", "m", "b", "e", "r">> >>

\* the match on month_name, 1 for an unknown name
MonthNumber(month_name) ==
    IF \E k \in 1..12 : MonthNames[k] = month_name
    THEN CHOOSE k \in 1..12 : MonthNames[k] = month_name
    ELSE 1

\* parse_date_to_sortable(date_str)
parse_date_to_sortable(date_str) ==
    IF date_str = << >> THEN << >>
    ELSE
    LET parts == split(date_str, <<",", " ">>)
    IN  IF Len(parts) < 2 THEN date_str
        ELSE
        LET month_day == get_or(parts, 2, << >>)
            year_time == get_or(parts, 3, << >>)
            md_parts == split_whitespace(month_day)
            month_name == get_or(md_parts, 1, << >>)
            day == unwrap_or(parse_u32(get_or(md_parts, 2, <<"1">>)), 1)
            yt_parts == split(year_time, <<" ", "a", "t", " ">>)
            year == unwrap_or(parse_u32(get_or(yt_parts, 1, <<"1", "9", "7", "0">>)), 1970)
            time == get_or(yt_parts, 2, <<"0", "0", ":", "0", "0", ":", "0", "0">>)
            month == MonthNumber(month_name)
        IN  ZeroPad(year, 4) \o <<"-">> \o ZeroPad(month, 2) \o <<"-">>
            \o ZeroPad(day, 2) \o <<" ">> \o time

\* the indices 1..n in the order a stable sort leaves them, c[i, j] being
\* the comparison of the i-th with the j-th element
StableOrder(n, c) ==
    CHOOSE p \in [1..n -> 1..n] :
        /\ \A i, j \in 1..n : i # j => p[i] # p[j]
        /\ \A i, j \in 1..n :
              i < j => \/ c[p[i], p[j]] < 0
                       \/ (c[p[i], p[j]] = 0 /\ p[i] < p[j])

\* slice::sort_by(cmp): stable; c is the table of cmp on the elements of s
sort_by(s, c) ==
    LET p == StableOrder(Len(s), c) IN [k \in 1..Len(s) |-> s[p[k]]]

\* a.disc_number.cmp(&b.disc_number).then(a.track_number.cmp(&b.track_number))
DiscThenTrack(a, b) ==
    IF int_cmp(a.disc_number, b.disc_number) # 0
    THEN int_cmp(a.disc_number, b.disc_number)
    ELSE int_cmp(a.track_number, b.track_number)

\* get_tracks_by_album that ignores the disc number
get_tracks_by_album_no_disc(c, album_name) ==
    LET tracks == SelectSeq(c.tracks, LAMBDA t : t.album = album_name)
    IN  sort_by(tracks, [i \in 1..Len(tracks), j \in 1..Len(tracks) |->
                            int_cmp(tracks[i].track_number, tracks[j].track_number)])

\* get_tracks_by_album(album_name)
get_tracks_by_album(c, album_name) ==
    LET tracks == SelectSeq(c.tracks, LAMBDA t : t.album = album_name)
    IN  sort_by(tracks, [i \in 1..Len(tracks), j \in 1..Len(tracks) |->
                            DiscThenTrack(tracks[i], tracks[j])])

\* date_b.cmp(&date_a): newest first
NewestFirst(a, b) ==
    str_cmp(parse_date_to_sortable(b.date_added), parse_date_to_sortable(a.date_added))

\* the filter_map over the sorted records: the first record of each album
\* with a name, as (album, artist)
RECURSIVE UniqueAlbums(_, _)
UniqueAlbums(ts, seen) ==
    IF ts = << >> THEN << >>
    ELSE IF ts[1].album # << >> /\ ts[1].album \notin seen
    THEN << <<ts[1].album, ts[1].artist>> >> \o UniqueAlbums(Tail(ts), seen \cup {ts[1].album})
    ELSE UniqueAlbums(Tail(ts), seen)

\* get_recent_albums(limit)
get_recent_albums(c, limit) ==
    LET sorted_tracks ==
            sort_by(c.tracks, [i \in 1..Len(c.tracks), j \in 1..Len(c.tracks) |->
                                  NewestFirst(c.tracks[i], c.tracks[j])])
        all == UniqueAlbums(sorted_tracks, {})
    IN  SubSeq(all, 1, IF limit < Len(all) THEN limit ELSE Len(all))

-----------------------------------------------------------------------------

(* Library Source: the Music application seen through MusicController *)

\* the mutable fields of a library track in two versions (v = 0, 1) that
\* differ in every field
LibTrack(i, v) ==
    [ name |-> Digits3(i),
      artist |-> <<"A">>,
      album |-> <<"L", DigitChars[((i \div 10) % 10) + 1]>>,
      date_added |-> <<DigitChars[v + 1]>>,
      year |-> 2000 + v,
      track_number |-> (i % 20) + 1 + v,
      disc_number |-> 1 + v,
      time |-> <<DigitChars[v + 4]>>,
      played_count |-> v,
      favorited |-> (v = 1) ]

Entry(i, v, t) == [track |-> LibTrack(i, v), added_at |-> t]

\* a library of n tracks with pairwise distinct keys; the last two were added
\* at StartTime, the others long before
Lib(n) == [i \in 1..n |-> Entry(i, 0, IF i > n - 2 THEN StartTime ELSE 0)]

\* a library holding the same (name, artist, album) twice
DupLib == << Entry(1, 0, 0), Entry(2, 0, 0), Entry(1, 1, StartTime) >>

Libraries == {Lib(0), Lib(3), Lib(120), DupLib}

Min(a, b) == IF a < b THEN a ELSE b

TracksOf(entries) == [k \in 1..Len(entries) |-> entries[k].track]

\* get_tracks_batch(start, count) when the script succeeds
get_tracks_batch(library, start, count) ==
    LET totalCount == Len(library)
        endIndex   == Min(start + count - 1, totalCount)
    IN  IF start > totalCount THEN << >>
        ELSE TracksOf(SubSeq(library, start, endIndex))

\* get_tracks_added_since(unix_timestamp) when the script succeeds
IsRecent(e, cutoff) == e.added_at > cutoff
get_tracks_added_since(library, unix_timestamp) ==
    TracksOf(SelectSeq(library, LAMBDA e : IsRecent(e, unix_timestamp)))

\* a subtraction that goes below zero
wrapping_sub(a, b) == a - b

saturating_sub(a, b) == IF a >= b THEN a - b ELSE 0

MapNew(tracks) == [k \in 1..Len(tracks) |-> CachedTrack_new(tracks[k])]

----------------------------------------------------------------------------
(* CacheResponse messages *)

BatchLoaded(tracks, loaded, total) ==
    [type |-> "BatchLoaded", tracks |-> tracks, loaded |-> loaded, total |-> total]
Upsert(tracks, total) ==
    [type |-> "Upsert", tracks |-> tracks, loaded |-> 0, total |-> total]
Complete ==
    [type |-> "Complete", tracks |-> << >>, loaded |-> 0, total |-> 0]

\* what the history keeps of a message
Summary(m) == [type |-> m.type, n |-> Len(m.tracks), loaded |-> m.loaded, total |-> m.total]

Call(op, arg, n) == [op |-> op, arg |-> arg, n |-> n]

SourceOutcomes == {"ok", "err"}

----------------------------------------------------------------------------
(* The track sync thread of App::new *)

LoopHead(offset, total) == IF offset < total THEN "loop" ELSE "complete"

\* a send that puts the message at the front of the queue
Send_in_front(m) ==
    /\ chan' = <<m>> \o chan
    /\ sent' = Append(sent, Summary(m))

Send(m) ==
    /\ chan' = Append(chan, m)
    /\ sent' = Append(sent, Summary(m))

\* a thread that does not test the total for zero
GetTotal_no_zero_test ==
    /\ UNCHANGED <<idleVars, applied>>
    /\ pc = "start"
    /\ \E r \in SourceOutcomes :
        LET total == IF r = "ok" THEN Len(lib) ELSE 0
        IN  /\ current_total' = total
            /\ calls' = Append(calls, Call("count", 0, IF r = "ok" THEN total ELSE -1))
            /\ IF cache_is_complete
               THEN /\ pc' = "incremental"
                    /\ UNCHANGED <<chan, sent, cache_offset>>
               ELSE /\ cache_offset' = cache_loaded
                    /\ pc' = LoopHead(cache_loaded, total)
                    /\ UNCHANGED <<chan, sent>>
    /\ UNCHANGED <<lib, now, disk, appVars, cache_loaded, cache_last_updated,
                   cache_is_complete, runs, ticks, edits, boot, saves>>

\* get_total_track_count().unwrap_or(0) and the choice of the mode
GetTotal ==
    /\ UNCHANGED <<idleVars, applied>>
    /\ pc = "start"
    /\ \E r \in SourceOutcomes :
        LET total == IF r = "ok" THEN Len(lib) ELSE 0
        IN  /\ current_total' = total
            /\ calls' = Append(calls, Call("count", 0, IF r = "ok" THEN total ELSE -1))
            /\ IF total = 0
               THEN /\ Send(Complete)
                    /\ pc' = "done"
                    /\ UNCHANGED cache_offset
               ELSE IF cache_is_complete
               THEN /\ pc' = "incremental"
                    /\ UNCHANGED <<chan, sent, cache_offset>>
               ELSE /\ cache_offset' = cache_loaded
                    /\ pc' = LoopHead(cache_loaded, total)
                    /\ UNCHANGED <<chan, sent>>
    /\ UNCHANGED <<lib, now, disk, appVars, cache_loaded, cache_last_updated,
                   cache_is_complete, runs, ticks, edits, boot, saves>>

\* the incremental refresh branch
FetchSince ==
    /\ UNCHANGED <<idleVars, applied>>
    /\ pc = "incremental"
    /\ Len(sent) < MaxSent - 1
    /\ IF cache_last_updated = None
       THEN UNCHANGED <<chan, sent, calls>>
       ELSE LET cutoff == saturating_sub(cache_last_updated[1], OneDay)
            IN  \E r \in SourceOutcomes :
                  LET tracks == IF r = "ok" THEN get_tracks_added_since(lib, cutoff) ELSE << >>
                  IN  /\ calls' = Append(calls, Call("since", cutoff,
                                                    IF r = "ok" THEN Len(tracks) ELSE -1))
                      /\ IF tracks # << >>
                         THEN Send(Upsert(MapNew(tracks), current_total))
                         ELSE UNCHANGED <<chan, sent>>
    /\ pc' = "complete"
    /\ UNCHANGED <<lib, now, disk, appVars, cache_loaded, cache_last_updated,
                   cache_is_complete, current_total, cache_offset, runs, ticks,
                   edits, boot, saves>>

\* one iteration of the full build loop
FetchBatch ==
    /\ UNCHANGED <<idleVars, applied>>
    /\ pc = "loop"
    /\ Len(sent) < MaxSent - 1
    /\ \E r \in SourceOutcomes :
        IF r = "ok"
        THEN LET cached_tracks == MapNew(get_tracks_batch(lib, cache_offset + 1, BATCH_SIZE))
                 offset == cache_offset + Len(cached_tracks)
             IN  /\ calls' = Append(calls, Call("batch", cache_offset + 1, Len(cached_tracks)))
                 /\ cache_offset' = offset
                 /\ Send(BatchLoaded(cached_tracks, offset, current_total))
                 /\ pc' = LoopHead(offset, current_total)
        ELSE /\ calls' = Append(calls, Call("batch", cache_offset + 1, -1))
             /\ pc' = "complete"
             /\ UNCHANGED <<chan, sent, cache_offset>>
    /\ UNCHANGED <<lib, now, disk, appVars, cache_loaded, cache_last_updated,
                   cache_is_complete, current_total, runs, ticks, edits, boot, saves>>

\* the thread ends without the last send
SendComplete_silent ==
    /\ UNCHANGED <<idleVars, applied>>
    /\ pc = "complete"
    /\ Len(sent) < MaxSent
    /\ pc' = "done"
    /\ UNCHANGED <<lib, now, disk, appVars, chan, cache_loaded, cache_last_updated,
                   cache_is_complete, current_total, cache_offset, runs, ticks,
                   edits, boot, calls, sent, saves>>

\* a thread that writes the file itself before it ends
SendComplete_saves ==
    /\ UNCHANGED <<idleVars, applied>>
    /\ pc = "complete"
    /\ Len(sent) < MaxSent
    /\ Send(Complete)
    /\ pc' = "done"
    /\ disk' = save(cache, disk, "ok")
    /\ UNCHANGED <<lib, now, appVars, cache_loaded, cache_last_updated,
                   cache_is_complete, current_total, cache_offset, runs, ticks,
                   edits, boot, calls, saves>>

SendComplete ==
    /\ UNCHANGED <<idleVars, applied>>
    /\ pc = "complete"
    /\ Len(sent) < MaxSent
    /\ Send(Complete)
    /\ pc' = "done"
    /\ UNCHANGED <<lib, now, disk, appVars, cache_loaded, cache_last_updated,
                   cache_is_complete, current_total, cache_offset, runs, ticks,
                   edits, boot, calls, saves>>

----------------------------------------------------------------------------
(* The consumer: App::poll_cache_responses, one received message at a time *)

\* the arms of the match: the cache afterwards, whether save() is called, and
\* the status message
\* the BatchLoaded arm with > for >= in the test for the completing batch
ApplyBatchLoaded_strict(c, m, t) ==
    LET c1 == [add_tracks(c, m.tracks) EXCEPT !.total_tracks = m.total]
    IN  IF m.loaded > m.total
        THEN [cache |-> update_timestamp(c1, t), save |-> TRUE, message |-> message]
        ELSE IF m.loaded % SaveEvery = 0
        THEN [cache |-> c1, save |-> TRUE, message |-> message]
        ELSE [cache |-> c1, save |-> FALSE, message |-> message]

ApplyBatchLoaded(c, m, t) ==
    LET c1 == [add_tracks(c, m.tracks) EXCEPT !.total_tracks = m.total]
    IN  IF m.loaded >= m.total
        THEN [cache |-> update_timestamp(c1, t), save |-> TRUE, message |-> message]
        ELSE IF m.loaded % SaveEvery = 0
        THEN [cache |-> c1, save |-> TRUE, message |-> message]
        ELSE [cache |-> c1, save |-> FALSE, message |-> message]

\* the Upsert arm with the timestamp and the save outside the test of added
ApplyUpsert_always_stamp(c, m, t) ==
    LET r  == upsert_tracks(c, m.tracks)
        c1 == [r.cache EXCEPT !.total_tracks = m.total]
    IN  [cache |-> update_timestamp(c1, t), save |-> TRUE,
         message |-> IF r.added_count > 0 THEN Some(r.added_count) ELSE message]

ApplyUpsert(c, m, t) ==
    LET r  == upsert_tracks(c, m.tracks)
        c1 == [r.cache EXCEPT !.total_tracks = m.total]
    IN  IF r.added_count > 0
        THEN [cache |-> update_timestamp(c1, t), save |-> TRUE, message |-> Some(r.added_count)]
        ELSE [cache |-> c1, save |-> FALSE, message |-> message]

\* the Complete arm with a save
ApplyComplete_saves(c) == [cache |-> c, save |-> TRUE, message |-> message]

ApplyComplete(c) == [cache |-> c, save |-> FALSE, message |-> message]

Apply(c, m, t) ==
    IF m.type = "BatchLoaded" THEN ApplyBatchLoaded(c, m, t)
    ELSE IF m.type = "Upsert" THEN ApplyUpsert(c, m, t)
    ELSE ApplyComplete(c)

\* a consumer that takes back the message when save fails
poll_cache_responses_undo_on_error ==
    /\ UNCHANGED idleVars
    /\ \/ /\ chan # << >>
          /\ LET m == Head(chan)
                 r == Apply(cache, m, now)
             IN  /\ chan' = Tail(chan)
                 /\ applied' = Append(applied, Summary(m))
                 /\ message' = r.message
                 /\ cache_loading' = IF m.type = "Complete" THEN FALSE ELSE cache_loading
                 /\ IF r.save
                    THEN /\ \E io \in SaveOutcomes :
                              /\ disk' = save(r.cache, disk, io)
                              /\ cache' = IF io = "ok" THEN r.cache ELSE cache
                         /\ saves' = saves + 1
                    ELSE /\ cache' = r.cache
                         /\ UNCHANGED <<disk, saves>>
       \/ /\ chan = << >>
          /\ pc = "done"
          /\ cache_loading' = FALSE
          /\ UNCHANGED <<chan, cache, message, disk, saves, applied>>
    /\ UNCHANGED <<lib, now, syncVars, runs, ticks, edits, boot, calls, sent>>

poll_cache_responses ==
    /\ UNCHANGED idleVars
    /\ \/ /\ chan # << >>
          /\ LET m == Head(chan)
                 r == Apply(cache, m, now)
             IN  /\ chan' = Tail(chan)
                 /\ applied' = Append(applied, Summary(m))
                 /\ cache' = r.cache
                 /\ message' = r.message
                 /\ cache_loading' = IF m.type = "Complete" THEN FALSE ELSE cache_loading
                 /\ IF r.save
                    THEN /\ \E io \in SaveOutcomes : disk' = save(r.cache, disk, io)
                         /\ saves' = saves + 1
                    ELSE UNCHANGED <<disk, saves>>
       \/ /\ chan = << >>
          /\ pc = "done"
          /\ cache_loading' = FALSE
          /\ UNCHANGED <<chan, cache, message, disk, saves, applied>>
    /\ UNCHANGED <<lib, now, syncVars, runs, ticks, edits, boot, calls, sent>>

----------------------------------------------------------------------------
(* The process ends at any point and the application is started again *)

Restart ==
    /\ UNCHANGED idleVars
    /\ runs < MaxRuns
    /\ \E io \in LoadOutcomes :
        LET c == load(disk, io)
        IN  /\ cache' = c
            /\ cache_loading' = ~is_complete(c)
            /\ cache_loaded' = c.loaded_tracks
            /\ cache_last_updated' = c.last_updated
            /\ cache_is_complete' = is_complete(c)
            /\ boot' = [file |-> disk, read |-> (io = "ok")]
    /\ message' = None
    /\ chan' = << >>
    /\ pc' = "start"
    /\ current_total' = 0
    /\ cache_offset' = 0
    /\ runs' = runs + 1
    /\ calls' = << >>
    /\ sent' = << >>
    /\ saves' = 0
    /\ applied' = << >>
    /\ UNCHANGED <<lib, now, disk, ticks, edits>>

----------------------------------------------------------------------------
(* The environment: the clock and the user's edits of the library *)

Tick ==
    /\ UNCHANGED <<idleVars, applied>>
    /\ ticks < MaxTicks
    /\ ticks' = ticks + 1
    /\ now' = now + TickStep
    /\ UNCHANGED <<lib, disk, appVars, chan, syncVars, runs, edits, histVars>>

\* The program sees the library only through its calls of the source, so an
\* edit is taken when the thread is about to make one.
AboutToCall == pc \in {"start", "incremental", "loop"}

RemoveAt(s, k) == SubSeq(s, 1, k - 1) \o SubSeq(s, k + 1, Len(s))

\* a track with a new key, or a second copy of the first track, is added
LibAdd ==
    /\ UNCHANGED <<idleVars, applied>>
    /\ edits < MaxEdits
    /\ AboutToCall
    /\ \E e \in {Entry(900 + edits, 0, now), Entry(1, 1, now)} :
         lib' = Append(lib, e)
    /\ edits' = edits + 1
    /\ UNCHANGED <<now, disk, appVars, chan, syncVars, runs, ticks, histVars>>

\* a track is played, rated or retagged: its mutable fields change
LibTouch ==
    /\ UNCHANGED <<idleVars, applied>>
    /\ edits < MaxEdits
    /\ AboutToCall
    /\ lib # << >>
    /\ LET k == Len(lib)
       IN  lib' = [lib EXCEPT ![k].track.year = @ + 10,
                              ![k].track.track_number = @ + 10,
                              ![k].track.disc_number = @ + 10,
                              ![k].track.time = <<"9">>,
                              ![k].track.played_count = @ + 10,
                              ![k].track.favorited = ~@]
    /\ edits' = edits + 1
    /\ UNCHANGED <<now, disk, appVars, chan, syncVars, runs, ticks, histVars>>

\* a track is deleted from the library
LibRemove ==
    /\ UNCHANGED <<idleVars, applied>>
    /\ edits < MaxEdits
    /\ AboutToCall
    /\ lib # << >>
    /\ lib' = RemoveAt(lib, 1)
    /\ edits' = edits + 1
    /\ UNCHANGED <<now, disk, appVars, chan, syncVars, runs, ticks, histVars>>

----------------------------------------------------------------------------
\* the library of three tracks after 117 tracks came in at once: all but the
\* last keep the date they were added elsewhere, long ago
ImportedLib(t) == Lib(3) \o [k \in 1..117 |-> Entry(k + 3, 0, IF k = 117 THEN t ELSE 0)]

\* many tracks are added to the library at once
LibImport ==
    /\ UNCHANGED <<idleVars, applied>>
    /\ edits < MaxEdits
    /\ AboutToCall
    /\ lib = Lib(3)
    /\ lib' = ImportedLib(now)
    /\ edits' = edits + 1
    /\ UNCHANGED <<now, disk, appVars, chan, syncVars, runs, ticks, histVars>>

-----------------------------------------------------------------------------

(* The playlist side-cache: PlaylistCache and the Music application's playlists *)

\* names that get_playlists leaves out
Excluded == {"Music", "Music Videos", "Favorite Songs"}

PlNames == {"P", "Q"}

\* the ListItem get_playlist_tracks builds for the track of playlist n when
\* the playlist is in its v-th state
PlItem(n, v) ==
    [ name |-> n, artist |-> "A", album |-> "L", year |-> 2000 + v,
      time |-> "3:00", played_count |-> v, favorited |-> (v > 0),
      track_number |-> 0 ]

\* get_playlists: the names of the user playlists without the excluded ones
get_playlists(source) == SelectSeq(source.names, LAMBDA n : n \notin Excluded)

\* get_playlist_tracks: the tracks of the playlist, one per state passed
get_playlist_tracks(source, n) ==
    IF n \in DOMAIN source.ver
    THEN [k \in 1..source.ver[n] |-> PlItem(n, k)]
    ELSE << >>

\* the outcomes of get_playlist_tracks: the script fails for a name that is
\* not a playlist of the Music application
PlOutcomes(source, n) == IF n \in DOMAIN source.ver THEN {"ok", "err"} ELSE {"err"}

\* ListItem -> CachedPlaylistTrack
CachedPlaylistTrack(t) ==
    [ name |-> t.name, artist |-> t.artist, album |-> t.album, year |-> t.year,
      time |-> t.time, played_count |-> t.played_count, favorited |-> t.favorited ]

CachedPlaylist(n, tracks) ==
    [ name |-> n, tracks |-> [k \in 1..Len(tracks) |-> CachedPlaylistTrack(tracks[k])] ]

\* PlaylistCache.playlists: HashMap<String, CachedPlaylist> as a function
PlaylistCache_default == [n \in {} |-> CachedPlaylist(n, << >>)]

PlaylistCache_insert(c, playlist) ==
    [n \in (DOMAIN c) \cup {playlist.name} |->
        IF n = playlist.name THEN playlist ELSE c[n]]

PlaylistCache_get(c, n) == IF n \in DOMAIN c THEN Some(c[n]) ELSE None

PlNoFile == [kind |-> "absent", json |-> PlaylistCache_default]
PlCorruptFile == [kind |-> "corrupt", json |-> PlaylistCache_default]
PlJsonFile(c) == [kind |-> "json", json |-> c]

\* PlaylistCache::load
PlaylistCache_load(file, io) ==
    IF io = "nopath" THEN PlaylistCache_default
    ELSE IF file.kind = "absent" THEN PlaylistCache_default
    ELSE IF io = "readerr" THEN PlaylistCache_default
    ELSE IF file.kind = "corrupt" THEN PlaylistCache_default
    ELSE file.json

\* PlaylistCache::save: the file afterwards
PlaylistCache_save(c, file, io) ==
    IF io = "nopath" THEN file
    ELSE IF io = "partial" THEN PlCorruptFile
    ELSE PlJsonFile(c)

\* the Music application's playlists the model starts from
PlSources ==
    { [names |-> <<"P", "Music", "Q">>, ver |-> [n \in PlNames |-> 1]],
      [names |-> <<"Q">>, ver |-> [n \in {"Q"} |-> 1]],
      [names |-> << >>, ver |-> [n \in {} |-> 1]] }

\* the files playlists.json the application may find at startup
PlFiles ==
    { PlNoFile, PlCorruptFile,
      PlJsonFile(PlaylistCache_insert(PlaylistCache_default, CachedPlaylist("P", << >>))),
      PlJsonFile(PlaylistCache_insert(
                    PlaylistCache_insert(PlaylistCache_default,
                                         CachedPlaylist("P", <<PlItem("P", 1)>>)),
                    CachedPlaylist("Q", <<PlItem("Q", 1)>>))) }

\* the keys of a HashMap in some iteration order
RECURSIVE SeqOfSet(_)
SeqOfSet(S) ==
    IF S = {} THEN << >>
    ELSE LET x == CHOOSE y \in S : TRUE IN <<x>> \o SeqOfSet(S \ {x})

(* PlaylistLoadResponse messages *)

PlMsg(type, items, current, total, name, playlist) ==
    [type |-> type, items |-> items, current |-> current, total |-> total,
     name |-> name, playlist |-> playlist]

PlaylistList(items) == PlMsg("PlaylistList", items, 0, 0, "", CachedPlaylist("", << >>))
Progress(current, total, name) == PlMsg("Progress", << >>, current, total, name, CachedPlaylist("", << >>))
PlaylistLoaded(playlist) == PlMsg("PlaylistLoaded", << >>, 0, 0, "", playlist)
PlComplete == PlMsg("Complete", << >>, 0, 0, "", CachedPlaylist("", << >>))

PlSummary(m) ==
    [type |-> m.type, name |-> IF m.type = "PlaylistLoaded" THEN m.playlist.name ELSE m.name]

PlSend(ms) ==
    /\ pl_chan' = pl_chan \o ms
    /\ pl_sent' = pl_sent \o [k \in 1..Len(ms) |-> PlSummary(ms[k])]

----------------------------------------------------------------------------

(* The playlist load thread of App::new *)

PlCall(name, ok) == [name |-> name, ok |-> ok]

\* a diff that keeps every playlist
Uncached_keeps_all(pls, known) == pls

\* playlists.iter().filter(|p| !playlist_cache_clone.contains(&p.name))
Uncached(pls, known) == SelectSeq(pls, LAMBDA n : n \notin known)

\* get_playlists, the PlaylistList message and the choice of the uncached playlists
PlGetPlaylists ==
    /\ pl_pc = "start"
    /\ \E r \in SourceOutcomes :
        IF r = "err"
        THEN /\ PlSend(<<PlComplete>>)
             /\ pl_pc' = "done"
             /\ UNCHANGED <<pl_uncached, pl_i>>
        ELSE LET pls == get_playlists(pl_lib)
                 uncached == Uncached(pls, playlist_cache_clone)
             IN  IF uncached = << >>
                 THEN /\ PlSend(<<PlaylistList(pls), PlComplete>>)
                      /\ pl_pc' = "done"
                      /\ UNCHANGED <<pl_uncached, pl_i>>
                 ELSE /\ PlSend(<<PlaylistList(pls)>>)
                      /\ pl_uncached' = uncached
                      /\ pl_i' = 1
                      /\ pl_pc' = "loop"
    /\ UNCHANGED <<pl_lib, pl_disk, playlist_cache, playlists, playlist_loading,
                   playlist_loading_progress, is_playlist_detail, content_source_name,
                   playlist_cache_clone, playlist_refreshing, playlist_refresh_rx,
                   rf_threads, pl_edits, pl_loads, pl_calls, pl_saves, rf_hist>>
    /\ UNCHANGED <<mainVars, pureVars>>

\* one iteration of the loop over the uncached playlists
PlFetchOne ==
    /\ pl_pc = "loop"
    /\ LET name == pl_uncached[pl_i]
           total == Len(pl_uncached)
       IN  \E r \in PlOutcomes(pl_lib, name) :
             /\ pl_calls' = Append(pl_calls, PlCall(name, r = "ok"))
             /\ IF r = "ok"
                THEN PlSend(<<Progress(pl_i, total, name),
                              PlaylistLoaded(CachedPlaylist(name, get_playlist_tracks(pl_lib, name)))>>)
                ELSE PlSend(<<Progress(pl_i, total, name)>>)
             /\ pl_i' = pl_i + 1
             /\ pl_pc' = IF pl_i < total THEN "loop" ELSE "complete"
    /\ UNCHANGED <<pl_lib, pl_disk, playlist_cache, playlists, playlist_loading,
                   playlist_loading_progress, is_playlist_detail, content_source_name,
                   playlist_cache_clone, pl_uncached, playlist_refreshing,
                   playlist_refresh_rx, rf_threads, pl_edits, pl_loads, pl_saves, rf_hist>>
    /\ UNCHANGED <<mainVars, pureVars>>

PlSendComplete ==
    /\ pl_pc = "complete"
    /\ PlSend(<<PlComplete>>)
    /\ pl_pc' = "done"
    /\ UNCHANGED <<pl_lib, pl_disk, playlist_cache, playlists, playlist_loading,
                   playlist_loading_progress, is_playlist_detail, content_source_name,
                   playlist_cache_clone, pl_uncached, pl_i, playlist_refreshing,
                   playlist_refresh_rx, rf_threads, pl_edits, pl_loads, pl_calls,
                   pl_saves, rf_hist>>
    /\ UNCHANGED <<mainVars, pureVars>>

(* The consumer: App::poll_playlist_responses, one received message at a time *)

\* a consumer that also saves in the PlaylistLoaded arm
PlSavesOn_every_playlist(m) == m.type \in {"Complete", "PlaylistLoaded"}

\* the arm of the match that calls playlist_cache.save()
PlSavesOn(m) == m.type = "Complete"

poll_playlist_responses ==
    /\ \/ /\ pl_chan # << >>
          /\ LET m == Head(pl_chan)
             IN  /\ pl_chan' = Tail(pl_chan)
                 /\ playlists' = IF m.type = "PlaylistList" THEN m.items ELSE playlists
                 /\ playlist_loading_progress' =
                        IF m.type = "Progress" THEN <<m.current, m.total, m.name>>
                        ELSE IF m.type = "Complete" THEN << >>
                        ELSE playlist_loading_progress
                 /\ playlist_cache' =
                        IF m.type = "PlaylistLoaded"
                        THEN PlaylistCache_insert(playlist_cache, m.playlist)
                        ELSE playlist_cache
                 /\ playlist_loading' = IF m.type = "Complete" THEN FALSE ELSE playlist_loading
                 /\ IF PlSavesOn(m)
                    THEN /\ \E io \in SaveOutcomes :
                              pl_disk' = PlaylistCache_save(playlist_cache', pl_disk, io)
                         /\ pl_saves' = Append(pl_saves, "complete")
                    ELSE UNCHANGED <<pl_disk, pl_saves>>
       \/ /\ pl_chan = << >>
          /\ pl_pc = "done"
          /\ playlist_loading' = FALSE
          /\ UNCHANGED <<pl_chan, playlists, playlist_loading_progress, playlist_cache,
                         pl_disk, pl_saves>>
    /\ UNCHANGED <<pl_lib, is_playlist_detail, content_source_name, pl_pc,
                   playlist_cache_clone, pl_uncached, pl_i, playlist_refreshing,
                   playlist_refresh_rx, rf_threads, pl_edits, pl_loads, pl_calls,
                   pl_sent, rf_hist>>
    /\ UNCHANGED <<mainVars, pureVars>>

(* The user: opening a playlist and the force refresh *)

\* load_selected_playlist_tracks on the playlist selected in App.playlists
load_selected_playlist_tracks ==
    /\ pl_loads < MaxPlLoads
    /\ \E k \in 1..Len(playlists) :
        LET playlist_name == playlists[k]
        IN  /\ content_source_name' = playlist_name
            /\ is_playlist_detail' = TRUE
            /\ IF PlaylistCache_get(playlist_cache, playlist_name) # None
               THEN UNCHANGED <<playlist_cache, pl_disk, pl_saves>>
               ELSE \E r \in PlOutcomes(pl_lib, playlist_name) :
                      /\ IF r = "ok"
                         THEN LET c == PlaylistCache_insert(playlist_cache,
                                          CachedPlaylist(playlist_name,
                                              get_playlist_tracks(pl_lib, playlist_name)))
                              IN  /\ playlist_cache' = c
                                  /\ \E io \in SaveOutcomes :
                                        pl_disk' = PlaylistCache_save(c, pl_disk, io)
                                  /\ pl_saves' = Append(pl_saves, "load")
                         ELSE UNCHANGED <<playlist_cache, pl_disk, pl_saves>>
    /\ pl_loads' = pl_loads + 1
    /\ UNCHANGED <<pl_lib, playlists, playlist_loading, playlist_loading_progress,
                   pl_chan, pl_pc, playlist_cache_clone, pl_uncached, pl_i,
                   playlist_refreshing, playlist_refresh_rx, rf_threads, pl_edits,
                   pl_calls, pl_sent, rf_hist>>
    /\ UNCHANGED <<mainVars, pureVars>>

\* refresh_current_playlist and refresh_playlist_cache: a new channel replaces
\* the receiver kept so far and a thread is spawned
refresh_current_playlist ==
    /\ Len(rf_hist) < MaxRefresh
    /\ is_playlist_detail
    /\ content_source_name # ""
    /\ LET id == Len(rf_hist) + 1
       IN  /\ playlist_refreshing' = Some(content_source_name)
           /\ playlist_refresh_rx' = Some([id |-> id, msg |-> None])
           /\ rf_threads' = rf_threads \cup {id}
           /\ rf_hist' = Append(rf_hist, [name |-> content_source_name, result |-> "pending",
                                          tracks |-> << >>, applied |-> FALSE])
    /\ UNCHANGED <<pl_lib, pl_disk, playlist_cache, playlists, playlist_loading,
                   playlist_loading_progress, is_playlist_detail, content_source_name,
                   pl_chan, pl_pc, playlist_cache_clone, pl_uncached, pl_i, pl_edits,
                   pl_loads, pl_calls, pl_sent, pl_saves>>
    /\ UNCHANGED <<mainVars, pureVars>>

\* the body of a refresh thread: the send fails when its receiver was dropped
RefreshThread ==
    /\ \E id \in rf_threads :
        LET name == rf_hist[id].name
        IN  \E r \in PlOutcomes(pl_lib, name) :
              /\ rf_threads' = rf_threads \ {id}
              /\ IF r = "ok"
                 THEN LET tracks == get_playlist_tracks(pl_lib, name)
                      IN  /\ rf_hist' = [rf_hist EXCEPT ![id].result = "ok", ![id].tracks = tracks]
                          /\ IF playlist_refresh_rx # None /\ playlist_refresh_rx[1].id = id
                             THEN playlist_refresh_rx' =
                                      Some([id |-> id, msg |-> Some([name |-> name, tracks |-> tracks])])
                             ELSE UNCHANGED playlist_refresh_rx
                 ELSE /\ rf_hist' = [rf_hist EXCEPT ![id].result = "err"]
                      /\ UNCHANGED playlist_refresh_rx
    /\ UNCHANGED <<pl_lib, pl_disk, playlist_cache, playlists, playlist_loading,
                   playlist_loading_progress, is_playlist_detail, content_source_name,
                   pl_chan, pl_pc, playlist_cache_clone, pl_uncached, pl_i,
                   playlist_refreshing, pl_edits, pl_loads, pl_calls, pl_sent, pl_saves>>
    /\ UNCHANGED <<mainVars, pureVars>>

\* poll_playlist_refresh when try_recv returns a result
poll_playlist_refresh ==
    /\ playlist_refresh_rx # None
    /\ playlist_refresh_rx[1].msg # None
    /\ LET id == playlist_refresh_rx[1].id
           got == playlist_refresh_rx[1].msg[1]
           c == PlaylistCache_insert(playlist_cache, CachedPlaylist(got.name, got.tracks))
       IN  /\ playlist_cache' = c
           /\ \E io \in SaveOutcomes : pl_disk' = PlaylistCache_save(c, pl_disk, io)
           /\ pl_saves' = Append(pl_saves, "refresh")
           /\ rf_hist' = [rf_hist EXCEPT ![id].applied = TRUE]
    /\ playlist_refreshing' = None
    /\ playlist_refresh_rx' = None
    /\ UNCHANGED <<pl_lib, playlists, playlist_loading, playlist_loading_progress,
                   is_playlist_detail, content_source_name, pl_chan, pl_pc,
                   playlist_cache_clone, pl_uncached, pl_i, rf_threads, pl_edits,
                   pl_loads, pl_calls, pl_sent>>
    /\ UNCHANGED <<mainVars, pureVars>>

\* a track is added to a playlist in the Music application
PlEdit ==
    /\ pl_edits < MaxPlEdits
    /\ \E n \in DOMAIN pl_lib.ver : pl_lib' = [pl_lib EXCEPT !.ver[n] = @ + 1]
    /\ pl_edits' = pl_edits + 1
    /\ UNCHANGED <<pl_disk, playlist_cache, playlists, playlist_loading,
                   playlist_loading_progress, is_playlist_detail, content_source_name,
                   pl_chan, pl_pc, playlist_cache_clone, pl_uncached, pl_i,
                   playlist_refreshing, playlist_refresh_rx, rf_threads, pl_loads,
                   pl_calls, pl_sent, pl_saves, rf_hist>>
    /\ UNCHANGED <<mainVars, pureVars>>

\* the playlist variables where the playlist pipeline is not under study
PlOff ==
    /\ pl_lib = [names |-> << >>, ver |-> [n \in {} |-> 1]]
    /\ pl_disk = PlNoFile
    /\ playlist_cache = PlaylistCache_default
    /\ playlists = << >>
    /\ playlist_loading = TRUE
    /\ playlist_loading_progress = << >>
    /\ is_playlist_detail = FALSE
    /\ content_source_name = ""
    /\ pl_chan = << >>
    /\ pl_pc = "off"
    /\ playlist_cache_clone = {}
    /\ pl_uncached = << >>
    /\ pl_i = 0
    /\ playlist_refreshing = None
    /\ playlist_refresh_rx = None
    /\ rf_threads = {}
    /\ pl_edits = 0
    /\ pl_loads = 0
    /\ pl_calls = << >>
    /\ pl_sent = << >>
    /\ pl_saves = << >>
    /\ rf_hist = << >>

----------------------------------------------------------------------------

(* Specifications *)

\* the harness variables of load and save where they are not under study
FileOff ==
    /\ u_file = NoFile
    /\ u_io = [save |-> "none", load |-> "none"]
    /\ u_loaded = TrackCache_default

\* the harness variables of search where it is not under study
SearchOff ==
    /\ u_query = << >>
    /\ u_result = << >>

PureOff ==
    /\ u_pc = "off"
    /\ u_cache = TrackCache_default
    /\ u_batch = << >>
    /\ u_first = [cache |-> TrackCache_default, added_count |-> 0]
    /\ u_second = [cache |-> TrackCache_default, added_count |-> 0]
    /\ u_flag = FALSE
    /\ FileOff
    /\ SearchOff

\* the state after App::new at time t on a machine that never ran the
\* application
InitAppAt(t) ==
    /\ now = t
    /\ disk = NoFile
    /\ boot = [file |-> NoFile, read |-> TRUE]
    /\ cache = load(NoFile, "ok")
    /\ cache_loading = ~is_complete(cache)
    /\ message = None
    /\ chan = << >>
    /\ pc = "start"
    /\ cache_loaded = cache.loaded_tracks
    /\ cache_last_updated = cache.last_updated
    /\ cache_is_complete = is_complete(cache)
    /\ current_total = 0
    /\ cache_offset = 0
    /\ runs = 1
    /\ ticks = 0
    /\ edits = 0
    /\ calls = << >>
    /\ sent = << >>
    /\ saves = 0
    /\ applied = << >>

InitApp == InitAppAt(StartTime)

Init ==
    /\ lib \in Libraries
    /\ InitApp
    /\ PureOff
    /\ PlOff

Next ==
    \/ GetTotal
    \/ FetchSince
    \/ FetchBatch
    \/ SendComplete
    \/ poll_cache_responses
    \/ Restart
    \/ Tick
    \/ LibAdd
    \/ LibTouch
    \/ LibRemove

Spec == Init /\ [][Next]_vars

\* the program started on the library of three tracks, which grows at once
InitImport ==
    /\ lib = Lib(3)
    /\ InitApp
    /\ PureOff
    /\ PlOff

NextImport ==
    \/ GetTotal
    \/ FetchSince
    \/ FetchBatch
    \/ SendComplete
    \/ poll_cache_responses
    \/ Restart
    \/ Tick
    \/ LibImport

SpecImport == InitImport /\ [][NextImport]_vars

\* a machine whose clock is less than a day after the epoch
EarlyTime == 50000

EarlyLib == << Entry(1, 0, 0), Entry(2, 0, EarlyTime) >>

InitEarly ==
    /\ lib = EarlyLib
    /\ InitAppAt(EarlyTime)
    /\ PureOff
    /\ PlOff

NextEarly ==
    \/ GetTotal
    \/ FetchSince
    \/ FetchBatch
    \/ SendComplete
    \/ poll_cache_responses
    \/ Restart
    \/ Tick

SpecEarly == InitEarly /\ [][NextEarly]_vars

\* the same program with a library whose contents do not change
NextStatic ==
    \/ GetTotal
    \/ FetchSince
    \/ FetchBatch
    \/ SendComplete
    \/ poll_cache_responses
    \/ Restart
    \/ Tick

SpecStatic == Init /\ [][NextStatic]_vars

----------------------------------------------------------------------------
(* TrackCache operations applied to caches and batches drawn from bounded   *)
(* sets: upsert_tracks twice with the same batch, and is_complete           *)

\* keys that differ from the first one in exactly one of name, artist, album
PureKeys ==
    { [name |-> <<"a">>, artist |-> <<"A">>, album |-> <<"L">>],
      [name |-> <<"b">>, artist |-> <<"A">>, album |-> <<"L">>],
      [name |-> <<"a">>, artist |-> <<"B">>, album |-> <<"L">>],
      [name |-> <<"a">>, artist |-> <<"A">>, album |-> <<"M">>] }

PureTrack(k, v) ==
    [ name |-> k.name, artist |-> k.artist, album |-> k.album,
      date_added |-> <<DigitChars[v + 1]>>,
      year |-> 2000 + v,
      track_number |-> 1 + v,
      disc_number |-> 1 + v,
      time |-> <<DigitChars[v + 4]>>,
      played_count |-> v,
      favorited |-> (v = 1) ]

\* records as the sync thread builds them
BatchUniverse == { CachedTrack_new(PureTrack(k, v)) : k \in PureKeys, v \in {0, 1} }

\* records as a cache holds them: read from the file, or taken from a batch
StoredUniverse ==
    { CachedTrack_new(PureTrack(k, 0)) : k \in PureKeys } \cup
    { DeserializeTrack(SerializeTrack(CachedTrack_new(PureTrack(k, 0)))) : k \in PureKeys }

SeqsUpTo(S, n) == UNION { [1..m -> S] : m \in 0..n }

CacheOf(ts, total) ==
    [TrackCache_default EXCEPT !.tracks = ts, !.loaded_tracks = Len(ts),
                               !.total_tracks = total]

NoResult == [cache |-> TrackCache_default, added_count |-> 0]

MainOff ==
    /\ lib = Lib(0)
    /\ InitApp
    /\ PlOff

InitUpsert ==
    /\ MainOff
    /\ FileOff
    /\ SearchOff
    /\ u_pc = "init"
    /\ u_cache \in { CacheOf(ts, Len(ts)) : ts \in SeqsUpTo(StoredUniverse, MaxCacheLen) }
    /\ u_batch \in SeqsUpTo(BatchUniverse, MaxBatchLen)
    /\ u_first = NoResult
    /\ u_second = NoResult
    /\ u_flag = FALSE

UpsertFirst ==
    /\ u_pc = "init"
    /\ u_first' = upsert_tracks(u_cache, u_batch)
    /\ u_pc' = "once"
    /\ UNCHANGED <<mainVars, plVars, u_file, u_io, u_loaded, u_query, u_result, u_cache, u_batch, u_second, u_flag>>

UpsertSecond ==
    /\ u_pc = "once"
    /\ u_second' = upsert_tracks(u_first.cache, u_batch)
    /\ u_pc' = "twice"
    /\ UNCHANGED <<mainVars, plVars, u_file, u_io, u_loaded, u_query, u_result, u_cache, u_batch, u_first, u_flag>>

NextUpsert ==
    \/ UpsertFirst
    \/ UpsertSecond

SpecUpsert == InitUpsert /\ [][NextUpsert]_vars

InitComplete ==
    /\ MainOff
    /\ FileOff
    /\ SearchOff
    /\ u_pc = "init"
    /\ u_cache \in { CacheOf(ts, total) : ts \in SeqsUpTo(StoredUniverse, MaxCacheLen),
                                            total \in 0..MaxTotal }
    /\ u_batch = << >>
    /\ u_first = NoResult
    /\ u_second = NoResult
    /\ u_flag = FALSE

CallIsComplete ==
    /\ u_pc = "init"
    /\ u_flag' = is_complete(u_cache)
    /\ u_pc' = "called"
    /\ UNCHANGED <<mainVars, plVars, u_file, u_io, u_loaded, u_query, u_result, u_cache, u_batch, u_first, u_second>>

NextComplete == CallIsComplete

SpecComplete == InitComplete /\ [][NextComplete]_vars

\* the state after App::new for the playlist side-cache: the file found, the
\* cache loaded from it, the thread spawned
InitPl(sources, files) ==
    /\ pl_lib \in sources
    /\ pl_disk \in files
    /\ \E io \in LoadOutcomes : playlist_cache = PlaylistCache_load(pl_disk, io)
    /\ playlists = SeqOfSet(DOMAIN playlist_cache)
    /\ playlist_loading = TRUE
    /\ playlist_loading_progress = << >>
    /\ is_playlist_detail = FALSE
    /\ content_source_name = ""
    /\ pl_chan = << >>
    /\ pl_pc = "start"
    /\ playlist_cache_clone = DOMAIN playlist_cache
    /\ pl_uncached = << >>
    /\ pl_i = 0
    /\ playlist_refreshing = None
    /\ playlist_refresh_rx = None
    /\ rf_threads = {}
    /\ pl_edits = 0
    /\ pl_loads = 0
    /\ pl_calls = << >>
    /\ pl_sent = << >>
    /\ pl_saves = << >>
    /\ rf_hist = << >>

InitPlaylist ==
    /\ lib = Lib(0)
    /\ InitApp
    /\ PureOff
    /\ InitPl(PlSources, PlFiles)

NextPlaylist ==
    \/ PlGetPlaylists
    \/ PlFetchOne
    \/ PlSendComplete
    \/ poll_playlist_responses
    \/ load_selected_playlist_tracks
    \/ refresh_current_playlist
    \/ RefreshThread
    \/ poll_playlist_refresh
    \/ PlEdit

SpecPlaylist == InitPlaylist /\ [][NextPlaylist]_vars

\* the playlist pipeline with its scheduling: every spawned thread runs on,
\* and the main loop calls both polls on every iteration (main.rs:64-72);
\* what the user does has no fairness
SpecPlaylistFair ==
    /\ SpecPlaylist
    /\ WF_vars(PlGetPlaylists)
    /\ WF_vars(PlFetchOne)
    /\ WF_vars(PlSendComplete)
    /\ WF_vars(RefreshThread)
    /\ WF_vars(poll_playlist_responses)
    /\ WF_vars(poll_playlist_refresh)

\* both pipelines of one run side by side: the first build of a library of
\* three tracks and the playlists of a source with one playlist
InitBoth ==
    /\ lib = Lib(3)
    /\ InitApp
    /\ PureOff
    /\ InitPl({ [names |-> <<"Q">>, ver |-> [n \in {"Q"} |-> 1]] }, { PlNoFile })

NextBoth ==
    \/ GetTotal
    \/ FetchBatch
    \/ SendComplete
    \/ poll_cache_responses
    \/ PlGetPlaylists
    \/ PlFetchOne
    \/ PlSendComplete
    \/ poll_playlist_responses
    \/ load_selected_playlist_tracks
    \/ refresh_current_playlist
    \/ RefreshThread
    \/ poll_playlist_refresh
    \/ PlEdit

SpecBoth == InitBoth /\ [][NextBoth]_vars

\* load and save applied to caches and files

\* caches as the application holds them in memory
MemoryCaches ==
    { [CacheOf(ts, total) EXCEPT !.last_updated = lu, !.is_fresh_build = f,
                                 !.search_keys_initialized = f] :
        ts \in SeqsUpTo(StoredUniverse, MaxCacheLen), total \in {0, MaxTotal},
        lu \in {None, Some(StartTime)}, f \in BOOLEAN }

InitFile ==
    /\ MainOff
    /\ SearchOff
    /\ u_pc = "init"
    /\ u_cache \in MemoryCaches
    /\ u_batch = << >>
    /\ u_first = NoResult
    /\ u_second = NoResult
    /\ u_flag = FALSE
    /\ u_file \in {NoFile, CorruptFile}
    /\ u_io = [save |-> "none", load |-> "none"]
    /\ u_loaded = TrackCache_default

CallSave ==
    /\ u_pc = "init"
    /\ \E io \in SaveOutcomes :
        /\ u_file' = save(u_cache, u_file, io)
        /\ u_io' = [u_io EXCEPT !.save = io]
    /\ u_pc' = "saved"
    /\ UNCHANGED <<mainVars, plVars, u_cache, u_batch, u_first, u_second, u_flag,
                   u_loaded, u_query, u_result>>

CallLoad ==
    /\ u_pc \in {"init", "saved"}
    /\ \E io \in LoadOutcomes :
        /\ u_loaded' = load(u_file, io)
        /\ u_io' = [u_io EXCEPT !.load = io]
    /\ u_pc' = "loaded"
    /\ UNCHANGED <<mainVars, plVars, u_cache, u_batch, u_first, u_second, u_flag,
                   u_file, u_query, u_result>>

NextFile ==
    \/ CallSave
    \/ CallLoad

SpecFile == InitFile /\ [][NextFile]_vars

\* search applied to caches and queries

SearchTrack(name, artist, album) ==
    [ name |-> name, artist |-> artist, album |-> album, date_added |-> <<"1">>,
      year |-> 2000, track_number |-> 1, disc_number |-> 1, time |-> <<"3">>,
      played_count |-> 0, favorited |-> FALSE ]

SearchTracks ==
    { SearchTrack(<<"a">>, <<"I", "O">>, <<"L">>),
      SearchTrack(<<"i", "o">>, <<"s", "t", "u", "d", "i", "o">>, <<"M">>),
      SearchTrack(<<"b">>, <<"I", "O", " ", "E">>, <<"l">>) }

\* caches read from the file and not searched yet, possibly with records
\* added since, and caches whose search keys are all set
SearchCaches ==
    { CacheOf(ts, Len(ts)) :
        ts \in SeqsUpTo({ CachedTrack_new(t) : t \in SearchTracks } \cup
                        { DeserializeTrack(SerializeTrack(CachedTrack_new(t))) : t \in SearchTracks },
                        MaxCacheLen) }
    \cup
    { [CacheOf(ts, Len(ts)) EXCEPT !.search_keys_initialized = TRUE] :
        ts \in SeqsUpTo({ CachedTrack_new(t) : t \in SearchTracks }, MaxCacheLen) }

SearchWords ==
    { <<"i", "o">>,
      <<"I", "O">>,
      <<"l">>,
      <<"a", "r", "t", "i", "s", "t", ":", "i", "o">>,
      <<"a", "r", "t", "i", "s", "t", ":", "I", "O">>,
      <<"A", "r", "t", "i", "s", "t", ":", "\"", "I", "O", "\"">>,
      <<"A", "L", "B", "U", "M", ":", "'", "l", "'">>,
      <<"n", "a", "m", "e", ":">>,
      <<"n", "a", "m", "e", ":", "\"", "a">> }

\* the words of a query joined by single spaces
RECURSIVE JoinWords(_)
JoinWords(ws) ==
    IF ws = << >> THEN << >>
    ELSE IF Len(ws) = 1 THEN ws[1]
    ELSE ws[1] \o <<" ">> \o JoinWords(Tail(ws))

MaxWords == 2

SearchQueries == { JoinWords(ws) : ws \in SeqsUpTo(SearchWords, MaxWords) }

InitSearch ==
    /\ MainOff
    /\ FileOff
    /\ u_pc = "init"
    /\ u_cache \in SearchCaches
    /\ u_batch = << >>
    /\ u_first = NoResult
    /\ u_second = NoResult
    /\ u_flag = FALSE
    /\ u_query \in { <<q1, q2>> : q1 \in SearchQueries, q2 \in { JoinWords(<<w>>) : w \in SearchWords } \cup {<< >>} }
    /\ u_result = << >>

\* search with the first query, with the second, and with both joined by a space
CallSearch ==
    /\ u_pc = "init"
    /\ LET both == search(u_cache, u_query[1] \o <<" ">> \o u_query[2])
       IN  /\ u_result' = << search(u_cache, u_query[1]).result,
                             search(u_cache, u_query[2]).result,
                             both.result >>
           /\ u_cache' = both.cache
    /\ u_pc' = "searched"
    /\ UNCHANGED <<mainVars, plVars, u_batch, u_first, u_second, u_flag, u_file, u_io,
                   u_loaded, u_query>>

NextSearch == CallSearch

SpecSearch == InitSearch /\ [][NextSearch]_vars

----------------------------------------------------------------------------
(* Album queries and the date transform, called on their own *)

\* "Weekday, Month D, YYYY at H:MM:SS" as the Music application writes it
SourceDate(p) ==
    <<"S", "u", "n", "d", "a", "y">> \o <<",", " ">> \o MonthNames[p.month] \o <<" ">>
    \o ToDigits(p.day) \o <<",", " ">> \o ToDigits(p.year) \o <<" ", "a", "t", " ">>
    \o ToDigits(p.hour) \o <<":">> \o ZeroPad(p.minute, 2) \o <<":">> \o ZeroPad(p.second, 2)

DateParts ==
    [ year : {2015, 2016}, month : {2, 10}, day : {3, 13}, hour : {3, 10},
      minute : {5}, second : {7} ]

MalformedDates ==
    { << >>, <<"x">>, <<"S", "u", "n", "d", "a", "y", ",", " ", "x">> }

DateStrings == { SourceDate(p) : p \in DateParts } \cup MalformedDates

InitDate ==
    /\ MainOff
    /\ FileOff
    /\ u_pc = "init"
    /\ u_cache = TrackCache_default
    /\ u_batch = << >>
    /\ u_first = NoResult
    /\ u_second = NoResult
    /\ u_flag = FALSE
    /\ u_query \in DateStrings \X DateStrings
    /\ u_result = << >>

CallParseDate ==
    /\ u_pc = "init"
    /\ u_result' = << parse_date_to_sortable(u_query[1]), parse_date_to_sortable(u_query[2]) >>
    /\ u_pc' = "parsed"
    /\ UNCHANGED <<mainVars, plVars, u_cache, u_batch, u_first, u_second, u_flag, u_file,
                   u_io, u_loaded, u_query>>

NextDate == CallParseDate

SpecDate == InitDate /\ [][NextDate]_vars

\* the life of the search keys: a cache that is read from its file, receives
\* batches by add_tracks and upsert_tracks, is searched, and is saved and
\* read back, in any order

MaxKeyLen == 3

\* records as the sync thread builds them, in two states of the library
KeyBatches ==
    { <<CachedTrack_new([t EXCEPT !.played_count = v])>> : t \in SearchTracks, v \in {0, 1} }

KeyQueries == { << >>, <<"i", "o">>, <<"I", "O">>, <<"a", "l", "b", "u", "m", ":", "l">> }

InitKeys ==
    /\ MainOff
    /\ FileOff
    /\ u_pc = "init"
    /\ \E io \in LoadOutcomes : u_cache = load(NoFile, io)
    /\ u_batch = << >>
    /\ u_first = NoResult
    /\ u_second = NoResult
    /\ u_flag = FALSE
    /\ u_query = << >>
    /\ u_result = << >>

\* add_tracks with a batch; u_flag records that a record was appended after
\* a search had marked the keys as initialised
KeysAdd ==
    /\ u_pc # "off"
    /\ Len(u_cache.tracks) < MaxKeyLen
    /\ \E b \in KeyBatches :
        /\ u_batch' = b
        /\ u_cache' = add_tracks(u_cache, b)
    /\ u_flag' = (u_flag \/ u_cache.search_keys_initialized)
    /\ u_pc' = "added"
    /\ UNCHANGED <<mainVars, plVars, u_first, u_second, u_file, u_io, u_loaded,
                   u_query, u_result>>

KeysUpsert ==
    /\ u_pc # "off"
    /\ Len(u_cache.tracks) < MaxKeyLen
    /\ \E b \in KeyBatches :
        /\ u_batch' = b
        /\ u_cache' = upsert_tracks(u_cache, b).cache
        /\ u_flag' = (u_flag \/ (u_cache.search_keys_initialized
                                   /\ upsert_tracks(u_cache, b).added_count > 0))
    /\ u_pc' = "upserted"
    /\ UNCHANGED <<mainVars, plVars, u_first, u_second, u_file, u_io, u_loaded,
                   u_query, u_result>>

\* save, the end of the process, and load in the next one
KeysReload ==
    /\ u_pc # "off"
    /\ u_cache' = load(save(u_cache, NoFile, "ok"), "ok")
    /\ u_flag' = FALSE
    /\ u_pc' = "loaded"
    /\ UNCHANGED <<mainVars, plVars, u_batch, u_first, u_second, u_file, u_io,
                   u_loaded, u_query, u_result>>

KeysSearch ==
    /\ u_pc # "off"
    /\ \E q \in KeyQueries :
        /\ u_query' = <<q>>
        /\ u_result' = <<search(u_cache, q).result>>
        /\ u_cache' = search(u_cache, q).cache
    /\ u_pc' = "searched"
    /\ UNCHANGED <<mainVars, plVars, u_batch, u_first, u_second, u_flag, u_file,
                   u_io, u_loaded>>

NextKeys ==
    \/ KeysAdd
    \/ KeysUpsert
    \/ KeysReload
    \/ KeysSearch

SpecKeys == InitKeys /\ [][NextKeys]_vars

MaxAlbumLen == 3
MaxLimit == 2

AlbumTrack(album, artist, date_added, disc_number, track_number) ==
    CachedTrack_new(
        [ name |-> <<"a">>, artist |-> artist, album |-> album, date_added |-> date_added,
          year |-> 2000, track_number |-> track_number, disc_number |-> disc_number,
          time |-> <<"3">>, played_count |-> 0, favorited |-> FALSE ])

\* the ninth and the tenth hour of one day
Hour9  == [year |-> 2015, month |-> 9, day |-> 13, hour |-> 9, minute |-> 44, second |-> 42]
Hour10 == [year |-> 2015, month |-> 9, day |-> 13, hour |-> 10, minute |-> 0, second |-> 0]

AlbumDates == { SourceDate(Hour9), SourceDate(Hour10), << >>, <<"x">> }

ByAlbumCaches ==
    { CacheOf(ts, Len(ts)) :
        ts \in SeqsUpTo({ AlbumTrack(al, <<"A">>, << >>, d, n) :
                            al \in { <<"L">>, <<"M">> }, d \in 1..2, n \in 1..2 },
                        MaxAlbumLen) }

RecentCaches ==
    { CacheOf(ts, Len(ts)) :
        ts \in SeqsUpTo({ AlbumTrack(al, ar, dt, 1, 1) :
                            al \in { << >>, <<"L">>, <<"M">> },
                            ar \in { <<"A">>, <<"B">> },
                            dt \in AlbumDates },
                        MaxAlbumLen) }

\* u_query is the album name and the limit
InitAlbum ==
    /\ MainOff
    /\ FileOff
    /\ u_pc = "init"
    /\ \/ u_cache \in ByAlbumCaches /\ u_query \in { <<"L">>, <<"M">> } \X {0}
       \/ u_cache \in RecentCaches /\ u_query \in { << >> } \X (0..MaxLimit)
    /\ u_batch = << >>
    /\ u_first = NoResult
    /\ u_second = NoResult
    /\ u_flag = FALSE
    /\ u_result = << >>

CallGetTracksByAlbum ==
    /\ u_pc = "init"
    /\ u_result' = get_tracks_by_album(u_cache, u_query[1])
    /\ u_pc' = "by_album"
    /\ UNCHANGED <<mainVars, plVars, u_cache, u_batch, u_first, u_second, u_flag, u_file,
                   u_io, u_loaded, u_query>>

CallGetRecentAlbums ==
    /\ u_pc = "init"
    /\ u_result' = get_recent_albums(u_cache, u_query[2])
    /\ u_pc' = "recent"
    /\ UNCHANGED <<mainVars, plVars, u_cache, u_batch, u_first, u_second, u_flag, u_file,
                   u_io, u_loaded, u_query>>

NextAlbum ==
    \/ CallGetTracksByAlbum
    \/ CallGetRecentAlbums

SpecAlbum == InitAlbum /\ [][NextAlbum]_vars

-----------------------------------------------------------------------------

(* Claims *)

KeyOf(t) == <<t.name, t.artist, t.album>>

DistinctKeys(ts) ==
    \A i, j \in 1..Len(ts) : i # j => KeyOf(ts[i]) # KeyOf(ts[j])

\* C1: in every reachable state no two stored records share the same
\* (name, artist, album), in memory and in the saved file, whether the records
\* arrived through a full-build batch or through an upsert.
C1_NoDuplicateKeys ==
    /\ DistinctKeys(cache.tracks)
    /\ DistinctKeys(disk.json.tracks)

\* C2: loaded_tracks equals the number of records stored: in the cache in
\* memory, in every file written by save, and in the cache load returns for
\* that file.
C2_LoadedIsStoredCount ==
    /\ cache.loaded_tracks = Len(cache.tracks)
    /\ disk.json.loaded_tracks = Len(disk.json.tracks)
    /\ \A io \in LoadOutcomes :
          load(disk, io).loaded_tracks = Len(load(disk, io).tracks)

\* a process that started from a saved file, built further with add_tracks or
\* appended with upsert_tracks, and saved again
C2_Witness ==
    /\ boot.file.kind = "json"
    /\ boot.read
    /\ disk.kind = "json"
    /\ Len(disk.json.tracks) > Len(boot.file.json.tracks)
    /\ message # None

\* C3: is_complete() is true exactly when total_tracks > 0 and
\* loaded_tracks >= total_tracks; with total_tracks = 0 it is false whatever
\* loaded_tracks is.
C3_IsComplete ==
    u_pc = "called" =>
        /\ u_flag <=> (u_cache.total_tracks > 0 /\ u_cache.loaded_tracks >= u_cache.total_tracks)
        /\ (u_cache.total_tracks = 0 => ~u_flag)

C3_Witness ==
    /\ u_pc = "called"
    /\ u_cache.total_tracks = 0
    /\ u_cache.loaded_tracks > 0
    /\ ~u_flag

\* a step of the consumer that applies the message at the head of the channel
Applies(type) ==
    /\ chan # << >>
    /\ Head(chan).type = type
    /\ chan' = Tail(chan)
    /\ runs' = runs

\* the number of records the step appended
AddedByStep == Len(cache'.tracks) - Len(cache.tracks)

\* C4: when an Upsert message is applied whose records all match stored keys
\* (nothing appended) but change mutable fields, the file afterwards holds the
\* merged records and last_updated is left as it was.
C4_PureUpdatePersisted ==
    [][ ( /\ Applies("Upsert")
          /\ DistinctKeys(cache.tracks)
          /\ DistinctKeys(TracksOf(lib))
          /\ AddedByStep = 0
          /\ Serialize(cache').tracks # Serialize(cache).tracks )
        => ( /\ saves' = saves + 1
             /\ (disk'.kind = "json" => disk'.json.tracks = Serialize(cache').tracks)
             /\ cache'.last_updated = cache.last_updated ) ]_vars

\* C5: applying an Upsert message sets last_updated to the current time when
\* it appended a record and leaves it as it was when it appended none, so
\* last_updated changes only if added_count > 0; applying Complete leaves
\* last_updated, the records and the file as they were.
C5_StampOnlyWhenAdded ==
    [][ /\ Applies("Upsert") =>
            /\ (AddedByStep > 0 => cache'.last_updated = Some(now))
            /\ (AddedByStep = 0 => cache'.last_updated = cache.last_updated)
            /\ (cache'.last_updated # cache.last_updated => AddedByStep > 0)
        /\ Applies("Complete") =>
            /\ cache'.last_updated = cache.last_updated
            /\ cache'.tracks = cache.tracks
            /\ disk' = disk
            /\ saves' = saves ]_vars

\* an Upsert that appended has been applied, and the Complete after it
C5_Witness ==
    /\ message # None
    /\ cache.last_updated = Some(now)
    /\ cache_last_updated # None
    /\ cache_last_updated # cache.last_updated
    /\ pc = "done"
    /\ chan = << >>
    /\ ~cache_loading

\* the library's records as the cache stores them, without the derived key
LibRecords == [k \in 1..Len(lib) |-> SerializeTrack(CachedTrack_new(lib[k].track))]

IsPrefix(a, b) ==
    /\ Len(a) <= Len(b)
    /\ \A k \in 1..Len(a) : a[k] = b[k]

\* the messages of this run that the consumer has applied
Applied == SubSeq(sent, 1, Len(sent) - Len(chan))

FinalBatchApplied ==
    \E k \in 1..Len(Applied) :
        Applied[k].type = "BatchLoaded" /\ Applied[k].loaded >= Applied[k].total

BatchCalls == SelectSeq(calls, LAMBDA c : c.op = "batch")

C6_Prefix ==
    /\ IsPrefix(Serialize(cache).tracks, LibRecords)
    /\ IsPrefix(disk.json.tracks, LibRecords)

C6_ResumeOffset ==
    (boot.read /\ BatchCalls # << >>) =>
        BatchCalls[1].arg = boot.file.json.loaded_tracks + 1

C6_WholeLibrary ==
    FinalBatchApplied => Serialize(cache).tracks = LibRecords

\* C6: with a library that does not change, whatever the points at which the
\* runs were cut off, the records in memory and in the file are a prefix of
\* the library's records, a run's first batch request starts at the saved
\* loaded_tracks + 1, and once a run has applied its final batch the cache
\* holds the whole library, every record once.
C6_ResumeIsPrefix ==
    /\ C6_Prefix
    /\ C6_ResumeOffset
    /\ C6_WholeLibrary

\* the same for libraries whose keys are pairwise distinct
C6_DistinctKeysOnly == DistinctKeys(TracksOf(lib)) => C6_ResumeIsPrefix

NoSourceFailure == \A k \in 1..Len(calls) : calls[k].n # -1

\* the run builds a library of 120 tracks from an empty cache and no call of
\* the source has failed
Build120 ==
    /\ Len(lib) = 120
    /\ current_total = 120
    /\ cache_loaded = 0
    /\ NoSourceFailure

Expected120 ==
    << [type |-> "BatchLoaded", n |-> 50, loaded |-> 50,  total |-> 120],
       [type |-> "BatchLoaded", n |-> 50, loaded |-> 100, total |-> 120],
       [type |-> "BatchLoaded", n |-> 20, loaded |-> 120, total |-> 120],
       Summary(Complete) >>

\* C7: the full build of a 120-track library from an empty cache sends three
\* BatchLoaded messages of 50, 50 and 20 records (loaded = 50, 100, 120) and
\* then Complete; when the three are applied loaded_tracks = 120 =
\* total_tracks and is_complete() holds; the third batch, and not the second,
\* sets last_updated, and it calls save.
C7_Build120 ==
    Build120 =>
        /\ IsPrefix(sent, Expected120)
        /\ (pc = "done" => sent = Expected120)
        /\ (Len(Applied) = 2 =>
                /\ cache.last_updated = None
                /\ ~is_complete(cache)
                /\ saves = 1)
        /\ (Len(Applied) >= 3 =>
                /\ cache.loaded_tracks = 120
                /\ cache.total_tracks = 120
                /\ is_complete(cache)
                /\ cache.last_updated # None
                /\ saves = 2)

C7_Witness ==
    /\ Build120
    /\ pc = "done"
    /\ chan = << >>
    /\ ~cache_loading
    /\ cache.loaded_tracks = 120
    /\ saves = 2
    /\ disk.kind = "json"
    /\ disk.json.last_updated # None

\* C8: upsert_tracks applied a second time with the same batch returns 0 and
\* leaves the cache (records, field values, order) as the first application
\* left it.
C8_UpsertIdempotent ==
    u_pc = "twice" =>
        /\ u_second.added_count = 0
        /\ u_second.cache = u_first.cache

\* the first application appended a record and changed a stored one
C8_Witness ==
    /\ u_pc = "twice"
    /\ u_first.added_count > 0
    /\ \E k \in 1..Len(u_cache.tracks) : u_first.cache.tracks[k] # u_cache.tracks[k]

\* indices of the batch records with the key of t
Hits(batch, t) == { i \in 1..Len(batch) : KeyOf(batch[i]) = KeyOf(t) }

MaxOf(S) == CHOOSE x \in S : \A y \in S : y <= x

\* the stored record t with the mutable fields of the batch record b
Overwritten(t, b) ==
    [ name |-> t.name, artist |-> t.artist, album |-> t.album,
      date_added |-> b.date_added, year |-> b.year,
      track_number |-> b.track_number, disc_number |-> b.disc_number,
      time |-> b.time, played_count |-> b.played_count,
      favorited |-> b.favorited,
      search_key |-> SearchKeyOf(t) ]

\* batch indices at which a key not stored before occurs for the first time
NewFirst(before, batch) ==
    { i \in 1..Len(batch) :
        /\ \A k \in 1..Len(before) : KeyOf(before[k]) # KeyOf(batch[i])
        /\ \A m \in 1..(i - 1) : KeyOf(batch[m]) # KeyOf(batch[i]) }

\* C9: upsert_tracks overwrites the mutable fields of the first stored record
\* that has the key of an incoming record and leaves its key, the other
\* records and the count alone; a record with a key not stored is appended and
\* counts one; the value returned is the increase of loaded_tracks, also when
\* the batch holds a new key more than once.
C9_UpsertMerge ==
    u_pc # "init" =>
        LET before == u_cache.tracks
            after  == u_first.cache.tracks
            fresh  == NewFirst(before, u_batch)
        IN  /\ Len(after) = Len(before) + Cardinality(fresh)
            /\ u_first.added_count = Cardinality(fresh)
            /\ u_first.added_count = u_first.cache.loaded_tracks - u_cache.loaded_tracks
            /\ u_first.cache.loaded_tracks = Len(after)
            /\ u_first.cache.total_tracks = u_cache.total_tracks
            /\ \A j \in 1..Len(before) :
                  IF \/ Hits(u_batch, before[j]) = {}
                     \/ \E m \in 1..(j - 1) : KeyOf(before[m]) = KeyOf(before[j])
                  THEN after[j] = before[j]
                  ELSE after[j] = Overwritten(before[j], u_batch[MaxOf(Hits(u_batch, before[j]))])
            /\ \A i \in fresh :
                  LET pos == Len(before) + Cardinality({m \in fresh : m <= i})
                  IN  after[pos] = Overwritten(u_batch[i], u_batch[MaxOf(Hits(u_batch, u_batch[i]))])

\* a batch that holds a stored key with other field values and a new key twice
C9_Witness ==
    /\ u_pc = "once"
    /\ Len(u_batch) >= 2
    /\ u_first.added_count = 1
    /\ Len(u_first.cache.tracks) = Len(u_cache.tracks) + 1
    /\ \E k \in 1..Len(u_cache.tracks) : u_first.cache.tracks[k].played_count # u_cache.tracks[k].played_count

ZeroFetched == \E k \in 1..Len(calls) : calls[k].op = "since" /\ calls[k].n = 0

\* the cache App::new loaded when this process started
BootCache == load(boot.file, IF boot.read THEN "ok" ELSE "readerr")

\* C10: in a run whose incremental fetch returned no record, the thread sends
\* Complete and nothing else, and the cache in memory and the file stay as
\* they were at startup; save is not called.
C10_ZeroResultsNoOp ==
    ZeroFetched =>
        /\ IsPrefix(sent, <<Summary(Complete)>>)
        /\ (pc = "done" => sent = <<Summary(Complete)>>)
        /\ cache = BootCache
        /\ disk = boot.file
        /\ saves = 0

C10_Witness ==
    /\ ZeroFetched
    /\ pc = "done"
    /\ chan = << >>
    /\ ~cache_loading
    /\ Len(cache.tracks) > 0

----------------------------------------------------------------------------
(* Failure of a fetch *)

BatchFailed == \E k \in 1..Len(calls) : calls[k].op = "batch" /\ calls[k].n = -1

\* the successful batch requests of this run
BatchesOk == SelectSeq(calls, LAMBDA c : c.op = "batch" /\ c.n # -1)

RECURSIVE SumN(_)
SumN(ms) == IF ms = << >> THEN 0 ELSE Head(ms).n + SumN(Tail(ms))

\* C11: after a batch request of the full build has failed, the thread makes
\* no further request, sends nothing but the Complete that ends the run (the
\* messages are the batches fetched before and Complete, none carries an
\* error), the cache keeps the records it had at startup followed by those of
\* the batches applied, and once Complete is applied cache_loading is false
\* while is_complete() is false.
C11_BatchFailureStops ==
    BatchFailed =>
        /\ calls[Len(calls)].op = "batch" /\ calls[Len(calls)].n = -1
        /\ pc \in {"complete", "done"}
        /\ Len(sent) = Len(BatchesOk) + (IF pc = "done" THEN 1 ELSE 0)
        /\ \A k \in 1..Len(BatchesOk) :
              /\ sent[k].type = "BatchLoaded"
              /\ sent[k].n = BatchesOk[k].n
        /\ (pc = "done" => sent[Len(sent)] = Summary(Complete))
        /\ IsPrefix(BootCache.tracks, cache.tracks)
        /\ Len(cache.tracks) = cache_loaded + SumN(Applied)
        /\ ~is_complete(cache)
        /\ (pc = "done" /\ chan = << >> => ~cache_loading)

\* the second batch request failed, the first batch and Complete are applied
C11_Witness ==
    /\ BatchFailed
    /\ Len(BatchesOk) >= 1
    /\ pc = "done"
    /\ chan = << >>
    /\ Len(cache.tracks) > Len(BootCache.tracks)
    /\ ~cache_loading

\* C12: after a get_playlist_tracks call of the playlist load thread has
\* failed, the thread fetches no further playlist and sends no further
\* PlaylistLoaded in that pass.
C12_PlaylistFailureEndsPass ==
    \A k \in 1..Len(pl_calls) :
        ~pl_calls[k].ok =>
            /\ Len(pl_calls) = k
            /\ \A j \in 1..Len(pl_sent) :
                  pl_sent[j].type = "PlaylistLoaded" =>
                      \E i \in 1..(k - 1) : pl_calls[i].name = pl_sent[j].name

\* C13: the consumer applies the messages of a run in the order the thread
\* sent them; the loaded values of the BatchLoaded messages applied do not
\* decrease; Complete is sent once, as the last message of the run; and once
\* Complete is applied nothing is left to apply, the thread having ended.
C13_AppliedInSendOrder ==
    /\ applied = SubSeq(sent, 1, Len(applied))
    /\ Len(applied) + Len(chan) = Len(sent)
    /\ \A i, j \in 1..Len(applied) :
          (i < j /\ applied[i].type = "BatchLoaded" /\ applied[j].type = "BatchLoaded")
              => applied[i].loaded <= applied[j].loaded
    /\ \A k \in 1..Len(sent) :
          sent[k].type = "Complete" => (k = Len(sent) /\ pc = "done")
    /\ (pc = "done" => sent # << >> /\ sent[Len(sent)].type = "Complete")
    /\ \A k \in 1..Len(applied) :
          applied[k].type = "Complete" => (k = Len(applied) /\ chan = << >> /\ pc = "done")

\* two batches and Complete were queued together and have all been applied
C13_Witness ==
    /\ Len(applied) >= 3
    /\ applied[1].type = "BatchLoaded"
    /\ applied[2].type = "BatchLoaded"
    /\ applied[Len(applied)].type = "Complete"
    /\ saves = 1
    /\ chan = << >>

----------------------------------------------------------------------------
(* load and save *)

\* load could not produce a cache from the file: no path, no file, a failed
\* read, or content that does not parse
LoadFailed ==
    \/ u_io.load \in {"nopath", "readerr"}
    \/ u_file.kind \in {"absent", "corrupt"}

\* C14: when the path cannot be resolved, the file is missing, the read fails
\* or the content does not parse, load returns the empty cache flagged as
\* fresh: no records, total_tracks = 0, loaded_tracks = 0, last_updated None,
\* is_fresh_build TRUE; a corrupt file gives what an absent file gives.
C14_LoadFallsBackToFresh ==
    (u_pc = "loaded" /\ LoadFailed) =>
        /\ u_loaded.tracks = << >>
        /\ u_loaded.total_tracks = 0
        /\ u_loaded.loaded_tracks = 0
        /\ u_loaded.last_updated = None
        /\ u_loaded.is_fresh_build
        /\ u_loaded = load(NoFile, "ok")

\* the same without the flag: every failure gives an empty cache
C14_LoadFallsBackToEmpty ==
    (u_pc = "loaded" /\ LoadFailed) =>
        /\ u_loaded.tracks = << >>
        /\ u_loaded.total_tracks = 0
        /\ u_loaded.loaded_tracks = 0
        /\ u_loaded.last_updated = None

SavedAndLoaded == u_pc = "loaded" /\ u_io.save = "ok" /\ u_io.load = "ok"

\* C15: a cache that is saved and then loaded comes back with the same
\* total_tracks, loaded_tracks and last_updated and the same records in the
\* same order with the same field values; the file holds no search_key.
C15_SaveLoadRoundTrip ==
    SavedAndLoaded =>
        /\ u_loaded.total_tracks = u_cache.total_tracks
        /\ u_loaded.loaded_tracks = u_cache.loaded_tracks
        /\ u_loaded.last_updated = u_cache.last_updated
        /\ Len(u_loaded.tracks) = Len(u_cache.tracks)
        /\ \A k \in 1..Len(u_cache.tracks) :
              /\ SerializeTrack(u_loaded.tracks[k]) = SerializeTrack(u_cache.tracks[k])
              /\ KeyOf(u_loaded.tracks[k]) = KeyOf(u_cache.tracks[k])
              /\ "search_key" \notin DOMAIN u_file.json.tracks[k]
              /\ u_loaded.tracks[k].search_key = << >>

\* a cache with two records, a timestamp and a search key set has made the trip
C15_Witness ==
    /\ SavedAndLoaded
    /\ Len(u_cache.tracks) = 2
    /\ u_cache.last_updated # None
    /\ u_cache.tracks[1].search_key # << >>
    /\ u_cache.tracks[1] # u_cache.tracks[2]

\* C16: whatever is written to tracks.json is the cache as it stands after
\* the message being applied, never a part of it, so its loaded_tracks is its
\* number of records; the file is such a snapshot, or absent, or a truncated
\* document from which the next load returns an empty cache.
C16_SnapshotsAreWholeStates ==
    [][ /\ disk' # disk =>
            \/ disk'.kind = "corrupt"
            \/ /\ disk'.kind = "json"
               /\ disk'.json = Serialize(cache')
               /\ saves' = saves + 1
        /\ disk'.kind = "json" => disk'.json.loaded_tracks = Len(disk'.json.tracks)
        /\ disk'.kind # "json" =>
            /\ load(disk', "ok").tracks = << >>
            /\ load(disk', "ok").loaded_tracks = 0
            /\ load(disk', "ok").total_tracks = 0 ]_vars

\* the process was ended during a build after the save at 100 records and
\* the next run started from that snapshot
C16_Witness ==
    /\ runs >= 2
    /\ boot.read
    /\ boot.file.kind = "json"
    /\ Len(boot.file.json.tracks) = 100
    /\ cache_loaded = 100
    /\ ~cache_is_complete

----------------------------------------------------------------------------
(* The playlist side-cache *)

Elems(q) == { q[k] : k \in 1..Len(q) }

\* the names of the catalog get_playlists returns
Catalog == { n \in Elems(pl_lib.names) : n \notin Excluded }

\* C17: the playlist load thread fetches, announces and sends only playlists
\* of the catalog whose names were not in the playlist cache at startup, and
\* the Progress message of a playlist is sent before its PlaylistLoaded.
C17_OnlyUncachedFetched ==
    /\ \A k \in 1..Len(pl_calls) :
          /\ pl_calls[k].name \in Catalog
          /\ pl_calls[k].name \notin playlist_cache_clone
    /\ \A j \in 1..Len(pl_sent) :
          pl_sent[j].type \in {"Progress", "PlaylistLoaded"} =>
              /\ pl_sent[j].name \in Catalog
              /\ pl_sent[j].name \notin playlist_cache_clone
    /\ \A j \in 1..Len(pl_sent) :
          pl_sent[j].type = "PlaylistLoaded" =>
              /\ j > 1
              /\ pl_sent[j - 1] = [type |-> "Progress", name |-> pl_sent[j].name]
              /\ \E k \in 1..Len(pl_calls) : pl_calls[k].name = pl_sent[j].name /\ pl_calls[k].ok

\* P was cached at startup, the catalog holds P and Q: Q alone was fetched and sent
C17_Witness ==
    /\ playlist_cache_clone = {"P"}
    /\ Catalog = {"P", "Q"}
    /\ pl_pc = "done"
    /\ pl_calls = <<PlCall("Q", TRUE)>>
    /\ \E j \in 1..Len(pl_sent) : pl_sent[j] = [type |-> "PlaylistLoaded", name |-> "Q"]

AppliesPl(type) ==
    /\ pl_chan # << >>
    /\ Head(pl_chan).type = type
    /\ pl_chan' = Tail(pl_chan)

\* number of saves made by the Complete arm of poll_playlist_responses
SavesOnComplete == Len(SelectSeq(pl_saves, LAMBDA t : t = "complete"))

\* the consumer has applied the Complete message of the pass
PlCompleteApplied ==
    /\ pl_sent # << >>
    /\ pl_sent[Len(pl_sent)].type = "Complete"
    /\ pl_chan = << >>

\* C18: poll_playlist_responses saves the playlist cache once per pass, in
\* the step that applies Complete; at that step every PlaylistLoaded of the
\* pass has been received and its playlist is in the cache that is saved; the
\* step that applies a PlaylistLoaded does not save.
C18_SavedOnceOnComplete ==
    [][ /\ AppliesPl("PlaylistLoaded") =>
            /\ pl_saves' = pl_saves
            /\ pl_disk' = pl_disk
        /\ AppliesPl("Complete") =>
            /\ pl_saves' = Append(pl_saves, "complete")
            /\ pl_chan' = << >>
            /\ pl_pc = "done"
            /\ \A j \in 1..Len(pl_sent) :
                  pl_sent[j].type = "PlaylistLoaded" => pl_sent[j].name \in DOMAIN playlist_cache
            /\ playlist_cache' = playlist_cache
            /\ pl_disk' # pl_disk => (pl_disk'.kind = "corrupt" \/ pl_disk' = PlJsonFile(playlist_cache))
        /\ SavesOnComplete' = (IF PlCompleteApplied' THEN 1 ELSE 0) ]_vars

\* a pass that sent two playlists has been applied to its end and saved
C18_Witness ==
    /\ PlCompleteApplied
    /\ SavesOnComplete = 1
    /\ Len(SelectSeq(pl_sent, LAMBDA m : m.type = "PlaylistLoaded")) = 2
    /\ pl_disk.kind = "json"
    /\ {"P", "Q"} \subseteq DOMAIN pl_disk.json

\* the result of refresh id is in the channel whose receiver the consumer holds
RefreshWaiting(id) ==
    /\ playlist_refresh_rx # None
    /\ playlist_refresh_rx[1].id = id
    /\ playlist_refresh_rx[1].msg # None

\* a later refresh of the same playlist has been triggered and has not failed
RefreshSuperseded(id) ==
    \E later \in (id + 1)..Len(rf_hist) :
        /\ rf_hist[later].name = rf_hist[id].name
        /\ rf_hist[later].result # "err"

\* C19: the track list fetched by a force refresh is never lost: once the
\* fetch has succeeded the list has been written to the cache entry and
\* saved, or waits in the channel that poll_playlist_refresh reads, or a
\* later refresh of the same playlist is under way or done to replace it;
\* this with further refreshes and the playlist load thread running.
C19_RefreshResultReachesCache ==
    \A id \in 1..Len(rf_hist) :
        rf_hist[id].result = "ok" =>
            \/ rf_hist[id].applied
            \/ RefreshWaiting(id)
            \/ RefreshSuperseded(id)

\* the step that applies a refresh result writes that one entry and saves
C19_ApplyOverwritesOneEntry ==
    [][ (playlist_refresh_rx # None /\ playlist_refresh_rx' = None) =>
            LET got == playlist_refresh_rx[1].msg[1]
            IN  /\ got.name \in DOMAIN playlist_cache'
                /\ playlist_cache'[got.name] = CachedPlaylist(got.name, got.tracks)
                /\ \A n \in DOMAIN playlist_cache :
                      n # got.name => (n \in DOMAIN playlist_cache' /\ playlist_cache'[n] = playlist_cache[n])
                /\ DOMAIN playlist_cache' = DOMAIN playlist_cache \cup {got.name}
                /\ pl_saves' = Append(pl_saves, "refresh")
                /\ playlist_refreshing' = None ]_vars

----------------------------------------------------------------------------
(* search *)

\* C20: the records search returns for q1, a space and q2 are the stored
\* records, in storage order, that search returns for q1 and also for q2.
C20_SearchIsConjunction ==
    u_pc = "searched" =>
        u_result[3] = SelectSeq(u_cache.tracks,
                          LAMBDA t : t \in Elems(u_result[1]) /\ t \in Elems(u_result[2]))

\* two filters on the same field that differ on a stored record, and a record
\* that passes both
C20_Witness ==
    /\ u_pc = "searched"
    /\ Len(u_cache.tracks) = 2
    /\ Len(u_result[3]) = 1
    /\ Len(u_result[1]) = 2
    /\ Len(u_result[2]) = 1
    /\ ClassifyWord(u_query[1]).kind = "artist"
    /\ ClassifyWord(u_query[2]).kind = "artist"

\* "name artist album" of a record
Joined(t) == t.name \o <<" ">> \o t.artist \o <<" ">> \o t.album

\* the smart-case rule as stated: a term without upper-case characters is
\* looked for in the lower-cased target, any other term in the target as it is
SmartCase(target, term) ==
    IF \E k \in 1..Len(term) : term[k] \in {"A", "B", "E", "I", "L", "M", "N", "O", "R", "S", "T", "U"}
    THEN contains(target, term)
    ELSE contains(to_lowercase(target), term)

\* the one-word queries that are a general term, and those that are an
\* unquoted filter, with the field and the value they name
GeneralTerms == { <<"i", "o">>, <<"I", "O">>, <<"l">> }

UnquotedArtistFilters ==
    { [word |-> <<"a", "r", "t", "i", "s", "t", ":", "i", "o">>, value |-> <<"i", "o">>],
      [word |-> <<"a", "r", "t", "i", "s", "t", ":", "I", "O">>, value |-> <<"I", "O">>] }

\* C21: a general term matches the records whose "name artist album" holds
\* it, and an unquoted artist filter those whose artist holds its value:
\* without regard to case when the term has no upper-case character, and as a
\* case-sensitive substring when it has one.
C21_SmartCase ==
    u_pc = "searched" =>
        /\ u_query[2] \in GeneralTerms =>
              u_result[2] = SelectSeq(u_cache.tracks, LAMBDA t : SmartCase(Joined(t), u_query[2]))
        /\ \A f \in UnquotedArtistFilters :
              u_query[2] = f.word =>
                  u_result[2] = SelectSeq(u_cache.tracks, LAMBDA t : SmartCase(t.artist, f.value))

\* "IO" as a filter value leaves out artist "studio" and keeps artist "IO"
C21_Witness ==
    /\ u_pc = "searched"
    /\ u_query[2] = <<"a", "r", "t", "i", "s", "t", ":", "I", "O">>
    /\ Len(u_cache.tracks) = 2
    /\ u_cache.tracks[1].artist = <<"s", "t", "u", "d", "i", "o">>
    /\ u_cache.tracks[2].artist = <<"I", "O">>
    /\ u_result[2] = <<u_cache.tracks[2]>>

\* C22: a filter whose value is wrapped in double or in single quotes keeps
\* the records whose field is equal to the value, character for character:
\* Artist:"IO" keeps artist "IO" and not "IO E" or "studio", ALBUM:'l' keeps
\* album "l" and not album "L".
C22_QuotedFilterIsExact ==
    u_pc = "searched" =>
        /\ u_query[2] = <<"A", "r", "t", "i", "s", "t", ":", "\"", "I", "O", "\"">> =>
              u_result[2] = SelectSeq(u_cache.tracks, LAMBDA t : t.artist = <<"I", "O">>)
        /\ u_query[2] = <<"A", "L", "B", "U", "M", ":", "'", "l", "'">> =>
              u_result[2] = SelectSeq(u_cache.tracks, LAMBDA t : t.album = <<"l">>)

\* artist "IO" is kept and artist "IO E" is left out
C22_Witness ==
    /\ u_pc = "searched"
    /\ u_query[2] = <<"A", "r", "t", "i", "s", "t", ":", "\"", "I", "O", "\"">>
    /\ Len(u_cache.tracks) = 2
    /\ u_cache.tracks[1].artist = <<"I", "O", " ", "E">>
    /\ u_cache.tracks[2].artist = <<"I", "O">>
    /\ u_result[2] = <<u_cache.tracks[2]>>

\* s is t with some elements left out, the others in the same order
RECURSIVE IsSubseq(_, _)
IsSubseq(s, t) ==
    IF s = << >> THEN TRUE
    ELSE IF t = << >> THEN FALSE
    ELSE IF s[1] = t[1] THEN IsSubseq(Tail(s), Tail(t))
    ELSE IsSubseq(s, Tail(t))

\* C23: search with the empty query, or with a query of one space, returns
\* every stored record in storage order; the result of every search is a
\* subsequence of the stored records.
C23_EmptyQueryReturnsAll ==
    u_pc = "searched" =>
        /\ u_query[2] = << >> => u_result[2] = u_cache.tracks
        /\ u_query = << << >>, << >> >> => u_result[3] = u_cache.tracks
        /\ \A k \in 1..3 : IsSubseq(u_result[k], u_cache.tracks)

\* a query of one space on a cache of two records returns both
C23_Witness ==
    /\ u_pc = "searched"
    /\ u_query = << << >>, << >> >>
    /\ Len(u_cache.tracks) = 2
    /\ u_cache.tracks[1] # u_cache.tracks[2]
    /\ u_result[3] = u_cache.tracks

\* s is a rearrangement of t
IsPermutation(s, t) ==
    /\ Len(s) = Len(t)
    /\ \E p \in [1..Len(s) -> 1..Len(s)] :
          /\ \A i, j \in 1..Len(s) : i # j => p[i] # p[j]
          /\ \A i \in 1..Len(s) : s[i] = t[p[i]]

\* C24: get_tracks_by_album(name) returns the stored records whose album is
\* name, each as often as it is stored, in ascending order of disc_number
\* and, within a disc, of track_number.
C24_AlbumInDiscTrackOrder ==
    u_pc = "by_album" =>
        /\ IsPermutation(u_result, SelectSeq(u_cache.tracks, LAMBDA t : t.album = u_query[1]))
        /\ \A i, j \in 1..Len(u_result) :
              i < j => \/ u_result[i].disc_number < u_result[j].disc_number
                       \/ /\ u_result[i].disc_number = u_result[j].disc_number
                          /\ u_result[i].track_number <= u_result[j].track_number

\* disc 2 track 1 is stored before disc 1 track 2 and returned after it,
\* and a record of another album is left out
C24_Witness ==
    /\ u_pc = "by_album"
    /\ Len(u_cache.tracks) = 3
    /\ u_cache.tracks[1].album = u_query[1]
    /\ u_cache.tracks[1].disc_number = 2 /\ u_cache.tracks[1].track_number = 1
    /\ u_cache.tracks[2].album # u_query[1]
    /\ u_cache.tracks[3].album = u_query[1]
    /\ u_cache.tracks[3].disc_number = 1 /\ u_cache.tracks[3].track_number = 2
    /\ u_result = << u_cache.tracks[3], u_cache.tracks[1] >>

\* the moment a well-formed date names, and whether a is before b
Stamp(p) == << p.year, p.month, p.day, p.hour, p.minute, p.second >>

Earlier(a, b) ==
    \E k \in 1..6 : Stamp(a)[k] < Stamp(b)[k] /\ \A i \in 1..(k - 1) : Stamp(a)[i] = Stamp(b)[i]

WellFormed(date, parts) == \E p \in parts : SourceDate(p) = date

PartsOf(date, parts) == CHOOSE p \in parts : SourceDate(p) = date

\* record t was added before record s
AddedBefore(t, s) ==
    Earlier(PartsOf(t.date_added, {Hour9, Hour10}), PartsOf(s.date_added, {Hour9, Hour10}))

RecordsOf(album) == { k \in 1..Len(u_cache.tracks) : u_cache.tracks[k].album = album }

\* the records of the album that none of its records is newer than
LatestOf(album) ==
    { k \in RecordsOf(album) :
        \A j \in RecordsOf(album) : ~AddedBefore(u_cache.tracks[k], u_cache.tracks[j]) }

\* the shape of the result: at most limit pairs, no album twice, no empty
\* album name, as many pairs as the limit and the named albums allow
RecentShape ==
    /\ Len(u_result) = (IF u_query[2] < Cardinality({ u_cache.tracks[k].album : k \in 1..Len(u_cache.tracks) } \ { << >> })
                        THEN u_query[2]
                        ELSE Cardinality({ u_cache.tracks[k].album : k \in 1..Len(u_cache.tracks) } \ { << >> }))
    /\ \A i \in 1..Len(u_result) : u_result[i][1] # << >> /\ RecordsOf(u_result[i][1]) # {}
    /\ \A i, j \in 1..Len(u_result) : i # j => u_result[i][1] # u_result[j][1]

\* C25: on records with well-formed dates get_recent_albums(limit) returns at
\* most limit pairs, no album twice and none with an empty name; an album
\* whose latest record is newer than another's comes before it, and the
\* artist of a pair is the artist of a latest record of its album.
C25_NewestAlbumFirst ==
    (u_pc = "recent" /\ \A k \in 1..Len(u_cache.tracks) :
                            WellFormed(u_cache.tracks[k].date_added, {Hour9, Hour10})) =>
        /\ RecentShape
        /\ \A i, j \in 1..Len(u_result) :
              (\E a \in LatestOf(u_result[i][1]) : \E b \in LatestOf(u_result[j][1]) :
                  AddedBefore(u_cache.tracks[b], u_cache.tracks[a])) => i < j
        /\ \A i \in 1..Len(u_result) :
              \E k \in LatestOf(u_result[i][1]) : u_cache.tracks[k].artist = u_result[i][2]

\* the same with "newer" read as "greater transformed date": the order the
\* code sorts by
C25_GreatestKeyFirst ==
    u_pc = "recent" =>
        LET key(k) == parse_date_to_sortable(u_cache.tracks[k].date_added)
            top(album) == { k \in RecordsOf(album) :
                              \A j \in RecordsOf(album) : str_cmp(key(k), key(j)) >= 0 }
        IN  /\ RecentShape
            /\ \A i, j \in 1..Len(u_result) :
                  (\E a \in top(u_result[i][1]) : \E b \in top(u_result[j][1]) :
                      str_cmp(key(a), key(b)) > 0) => i < j
            /\ \A i \in 1..Len(u_result) :
                  \E k \in top(u_result[i][1]) : u_cache.tracks[k].artist = u_result[i][2]

\* C26: for two well-formed dates "Weekday, Month D, YYYY at H:MM:SS" of
\* which the first is the earlier moment, the transformed string of the first
\* is smaller than that of the second in string order.
C26_OrderPreserving ==
    (/\ u_pc = "parsed"
     /\ WellFormed(u_query[1], DateParts)
     /\ WellFormed(u_query[2], DateParts)
     /\ Earlier(PartsOf(u_query[1], DateParts), PartsOf(u_query[2], DateParts)))
    => str_cmp(u_result[1], u_result[2]) < 0

\* the same for two dates whose hours have the same number of digits, and
\* the year, month and day padded to YYYY-MM-DD
C26_OrderPreservingSameWidth ==
    (/\ u_pc = "parsed"
     /\ WellFormed(u_query[1], DateParts)
     /\ WellFormed(u_query[2], DateParts))
    => LET a == PartsOf(u_query[1], DateParts)
           b == PartsOf(u_query[2], DateParts)
       IN  /\ SubSeq(u_result[1], 1, 11) =
                 ZeroPad(a.year, 4) \o <<"-">> \o ZeroPad(a.month, 2) \o <<"-">>
                 \o ZeroPad(a.day, 2) \o <<" ">>
           /\ (Earlier(a, b) /\ (a.hour < 10 <=> b.hour < 10))
                 => str_cmp(u_result[1], u_result[2]) < 0

\* C27: a date_added string that is empty or is not a date is transformed to
\* the empty string.
C27_MalformedIsEmpty ==
    (u_pc = "parsed" /\ u_query[1] \in MalformedDates) => u_result[1] = << >>

\* the empty string is transformed to the empty string
C27_EmptyIsEmpty ==
    (u_pc = "parsed" /\ u_query[1] = << >>) => u_result[1] = << >>

\* the BatchLoaded messages applied in this run
AppliedBatches == SelectSeq(applied, LAMBDA m : m.type = "BatchLoaded")

\* the record count before the k-th applied batch of this run
LoadedBefore(k) == IF k = 1 THEN cache_loaded ELSE AppliedBatches[k - 1].loaded

\* the k-th applied batch brought the count to or past another multiple of
\* 100, or to the reported total
SaveDue(k) ==
    \/ AppliedBatches[k].loaded \div SaveEvery > LoadedBefore(k) \div SaveEvery
    \/ AppliedBatches[k].loaded >= AppliedBatches[k].total

\* C28: in a full build, save has been called for every applied batch that
\* brought the record count to or past another multiple of 100 or to the
\* reported total, so that fewer than 100 records have been applied while
\* save was never called; last_updated differs from its value at startup
\* only after a batch that reached the total.
C28_SavedEvery100 ==
    ~cache_is_complete =>
        /\ saves >= Cardinality({ k \in 1..Len(AppliedBatches) : SaveDue(k) })
        /\ saves = 0 => Len(cache.tracks) - cache_loaded < SaveEvery
        /\ cache.last_updated # BootCache.last_updated =>
              \E k \in 1..Len(AppliedBatches) :
                  AppliedBatches[k].loaded >= AppliedBatches[k].total

\* C29: a pass of the full build ends: every iteration of the loop that does
\* not leave it moves the offset nearer to the reported total, also when the
\* source returns fewer records than were asked for, or none, so that
\* Complete is sent after at most current_total iterations.
C29_EveryBatchAdvances ==
    [][(pc = "loop" /\ pc' = "loop" /\ calls' # calls) => cache_offset' > cache_offset]_vars

\* once the source has returned no record, the thread is not about to ask
\* for the same range again
C29_NoFetchAfterEmptyBatch ==
    ~(/\ pc = "loop"
      /\ sent # << >>
      /\ sent[Len(sent)].type = "BatchLoaded"
      /\ sent[Len(sent)].n = 0)

\* the size query of this run returned zero or failed
ZeroTotal == calls # << >> /\ calls[1].op = "count" /\ calls[1].n <= 0

\* C30: in a run whose size query returned zero or failed, the thread makes
\* no other call of the source and sends Complete and nothing else; the cache
\* in memory and the file stay as they were at startup and save is not called.
C30_ZeroTotalOnlyCompletes ==
    ZeroTotal =>
        /\ Len(calls) = 1
        /\ sent = << Summary(Complete) >>
        /\ pc = "done"
        /\ cache = BootCache
        /\ disk = boot.file
        /\ saves = 0

\* the size query failed in a run started from a complete cache with records,
\* and Complete was applied
C30_Witness ==
    /\ ZeroTotal
    /\ calls[1].n = -1
    /\ cache_is_complete
    /\ Len(cache.tracks) > 0
    /\ chan = << >>
    /\ applied = << Summary(Complete) >>
    /\ ~cache_loading

\* the incremental fetches of this run
SinceCalls == { k \in 1..Len(calls) : calls[k].op = "since" }

\* C31: the cutoff of an incremental fetch is last_updated minus 86400, and
\* 0 when last_updated is below 86400; a run makes at most one incremental
\* fetch, and only when the cache loaded at startup was complete.
C31_CutoffIsClamped ==
    /\ Cardinality(SinceCalls) <= 1
    /\ \A k \in SinceCalls :
          /\ is_complete(BootCache)
          /\ BootCache.last_updated # None
          /\ calls[k].arg = (IF BootCache.last_updated[1] < 86400 THEN 0
                             ELSE BootCache.last_updated[1] - 86400)
          /\ calls[k].arg >= 0

\* an incremental fetch with the cutoff clamped at 0
C31_Witness ==
    /\ SinceCalls # {}
    /\ BootCache.last_updated # None
    /\ BootCache.last_updated[1] > 0
    /\ BootCache.last_updated[1] < 86400
    /\ \A k \in SinceCalls : calls[k].arg = 0 /\ calls[k].n >= 0

\* an incremental fetch with a cutoff above 0
C31_WitnessLater ==
    \E k \in SinceCalls : calls[k].arg = BootCache.last_updated[1] - 86400 /\ calls[k].arg > 0

\* a step of one of the background threads
ThreadStep ==
    \/ pc' # pc
    \/ sent' # sent
    \/ calls' # calls
    \/ pl_pc' # pl_pc
    \/ pl_sent' # pl_sent
    \/ pl_calls' # pl_calls
    \/ rf_threads' # rf_threads /\ Len(rf_hist') = Len(rf_hist)

\* C32: a step that changes the track cache, the playlist cache or one of
\* their files is a step of the consumer and not of a thread, it takes at
\* most one message from each channel and calls save at most once for each
\* file; the consumer can take a message whenever a channel holds one.
C32_OnlyConsumerWrites ==
    [][ /\ (cache' # cache \/ disk' # disk) =>
              (~ThreadStep /\ chan # << >> /\ chan' = Tail(chan))
        /\ (playlist_cache' # playlist_cache \/ pl_disk' # pl_disk) =>
              /\ ~ThreadStep
              /\ \/ pl_chan # << >> /\ pl_chan' = Tail(pl_chan)
                 \/ pl_loads' = pl_loads + 1
                 \/ playlist_refresh_rx # None /\ playlist_refresh_rx' = None
        /\ chan' = chan \/ (chan # << >> /\ chan' = Tail(chan)) \/ ThreadStep
        /\ pl_chan' = pl_chan \/ (pl_chan # << >> /\ pl_chan' = Tail(pl_chan)) \/ ThreadStep
        /\ saves' \in {saves, saves + 1}
        /\ Len(pl_saves') \in {Len(pl_saves), Len(pl_saves) + 1}
        /\ chan # << >> => ENABLED poll_cache_responses
        /\ pl_chan # << >> => ENABLED poll_playlist_responses ]_vars

\* both caches and both files have been written while both threads were
\* still running or had ended
C32_Witness ==
    /\ Len(cache.tracks) = 3
    /\ disk # NoFile
    /\ DOMAIN playlist_cache = {"Q"}
    /\ pl_disk # PlNoFile
    /\ pc = "done"
    /\ pl_pc = "done"
    /\ chan = << >>
    /\ pl_chan = << >>

\* the consumer called save and the file does not hold the cache afterwards
FailedSave == saves' = saves + 1 /\ disk' # JsonFile(cache')

\* C33: when save fails while a message is applied, the message is applied
\* all the same: it leaves the channel, its records are in the cache in
\* memory and the file is as it was or truncated; after every step the
\* messages applied are the first of the messages sent, in their order.
C33_SaveFailureIgnored ==
    [][ /\ FailedSave =>
              /\ chan # << >>
              /\ chan' = Tail(chan)
              /\ applied' = Append(applied, Summary(Head(chan)))
              /\ Head(chan).type = "BatchLoaded" =>
                    /\ cache'.tracks = cache.tracks \o Head(chan).tracks
                    /\ cache'.total_tracks = Head(chan).total
              /\ Head(chan).type = "Upsert" =>
                    /\ cache'.total_tracks = Head(chan).total
                    /\ Len(cache'.tracks) > Len(cache.tracks)
                    /\ message' # None
              /\ disk' \in {disk, CorruptFile}
        /\ applied' = SubSeq(sent', 1, Len(applied')) ]_vars

\* every save of the first build of 120 tracks failed and all four messages
\* were applied
C33_Witness ==
    /\ runs = 1
    /\ disk = NoFile
    /\ saves = 2
    /\ Len(cache.tracks) = 120
    /\ Len(applied) = 4
    /\ applied = sent
    /\ ~cache_loading

\* C34: when an Upsert message is applied to a cache that is complete, the
\* cache is complete afterwards.
C34_UpsertKeepsComplete ==
    [][ (Applies("Upsert") /\ is_complete(cache)) => is_complete(cache') ]_vars

\* C35: a complete cache has a timestamp, in memory, in the file whichever
\* way it is read back, and in the values the sync thread captured at startup;
\* so the incremental branch is never entered without a timestamp to fetch from.
C35_CompleteHasTimestamp ==
    /\ is_complete(cache) => cache.last_updated # None
    /\ \A io \in LoadOutcomes :
          is_complete(load(disk, io)) => load(disk, io).last_updated # None
    /\ cache_is_complete => cache_last_updated # None
    /\ pc = "incremental" => cache_last_updated # None

\* a second run that started from a complete file and has made its
\* incremental fetch
C35_Witness ==
    /\ runs = 2
    /\ boot.read /\ is_complete(load(boot.file, "ok"))
    /\ cache_is_complete
    /\ SinceCalls # {}
    /\ pc = "done"

\* C36: after a force refresh is triggered, playlist_refreshing eventually
\* returns to None.
C36_RefreshingEventuallyNone ==
    (playlist_refreshing # None) ~> (playlist_refreshing = None)

\* when the refresh thread has ended without sending, nothing is left that
\* clears playlist_refreshing
C36_NoRefreshLeftWaiting ==
    ~ /\ playlist_refreshing # None
      /\ rf_threads = {}
      /\ playlist_refresh_rx # None
      /\ playlist_refresh_rx[1].msg = None

\* the playlist a PlaylistLoaded message at the head of the channel carries
BulkLoaded == Head(pl_chan).playlist

\* C37: the load thread fetches only the playlists that had no entry at
\* startup, so an entry found when its PlaylistLoaded message is applied was
\* written by a foreground load or a force refresh; the message does not
\* replace that entry by a list fetched before it (the playlist only grows in
\* the source, so an earlier fetch is a shorter list).
C37_BulkKeepsNewerEntry ==
    [][ (AppliesPl("PlaylistLoaded") /\ BulkLoaded.name \in DOMAIN playlist_cache) =>
            /\ BulkLoaded.name \notin playlist_cache_clone
            /\ Len(playlist_cache'[BulkLoaded.name].tracks)
                  >= Len(playlist_cache[BulkLoaded.name].tracks) ]_vars

\* no PlaylistLoaded message waits in the channel with a list older than the
\* entry it is going to replace
C37_NoStaleBulkPending ==
    \A k \in 1..Len(pl_chan) :
        (pl_chan[k].type = "PlaylistLoaded" /\ pl_chan[k].playlist.name \in DOMAIN playlist_cache) =>
            Len(pl_chan[k].playlist.tracks)
                >= Len(playlist_cache[pl_chan[k].playlist.name].tracks)

\* the records of ts are, position by position and with the same keys, the
\* first records of us
KeysKept(ts, us) ==
    /\ Len(us) >= Len(ts)
    /\ \A k \in 1..Len(ts) : KeyOf(us[k]) = KeyOf(ts[k])

\* C38: within a run no step removes a stored record, moves it or changes
\* its (name, artist, album), and loaded_tracks never decreases; the same for
\* upsert_tracks applied to any cache and batch.
C38_CacheOnlyGrows ==
    [][ /\ runs' = runs =>
              /\ KeysKept(cache.tracks, cache'.tracks)
              /\ cache'.loaded_tracks >= cache.loaded_tracks
        /\ u_pc' = "once" =>
              /\ KeysKept(u_cache.tracks, u_first'.cache.tracks)
              /\ u_first'.cache.loaded_tracks >= u_cache.loaded_tracks
        /\ u_pc' = "twice" =>
              /\ KeysKept(u_first.cache.tracks, u_second'.cache.tracks)
              /\ u_second'.cache.loaded_tracks >= u_first.cache.loaded_tracks ]_vars

\* an incremental run has updated a stored record in place and appended a
\* new one behind the records it had
C38_Witness ==
    /\ runs = 2
    /\ boot.read /\ boot.file.kind = "json"
    /\ \E k \in 1..Len(applied) : applied[k].type = "Upsert"
    /\ Len(cache.tracks) > Len(boot.file.json.tracks)
    /\ \E k \in 1..Len(boot.file.json.tracks) :
          cache.tracks[k].played_count # boot.file.json.tracks[k].played_count

\* C39: the records a search has evaluated all carry the lower-cased
\* "name artist album" as search_key, after any sequence of load, add_tracks,
\* upsert_tracks and searches; and the same search on the cache saved and
\* read back returns the same records.
C39_SearchKeysValid ==
    u_pc = "searched" =>
        /\ \A k \in 1..Len(u_cache.tracks) :
              u_cache.tracks[k].search_key = SearchKeyOf(u_cache.tracks[k])
        /\ search(load(save(u_cache, NoFile, "ok"), "ok"), u_query[1]).result = u_result[1]

\* a search over three records that returned, as its last record, one
\* appended after an earlier search had marked the keys as initialised
C39_Witness ==
    /\ u_pc = "searched"
    /\ u_flag
    /\ Len(u_cache.tracks) = MaxKeyLen
    /\ u_query[1] = <<"i", "o">>
    /\ Len(u_result[1]) >= 2
    /\ u_result[1][Len(u_result[1])] = u_cache.tracks[MaxKeyLen]

====
